---- MODULE Spec2Model ----
(***************************************************************************)
(* Risk-adjustment scoring (pfehlinger/risk_adjustment_model).             *)
(*                                                                         *)
(* The module models five parts of the repository, each with its own       *)
(* specification over its own variables:                                   *)
(*   SpecHier  - the three implementations of _apply_hierarchies           *)
(*   SpecCom   - CommercialModel.score, as the steps of one call           *)
(*   SpecConc  - two CommercialModel.score calls on one instance           *)
(*   SpecMed   - BaseMedicareModel.score (get_categories / get_weights)    *)
(*   SpecEdit  - the age/sex edits and _get_dx_categories                  *)
(* A Python list is a sequence, a dict a function, None of an optional     *)
(* list is the value None below.                                           *)
(***************************************************************************)
EXTENDS Integers, Sequences, FiniteSets, TLC

VARIABLES hier, inst, com, th, minst, med, edit, v24

vars == <<hier, inst, com, th, minst, med, edit, v24>>

\* the variables of the Commercial parts: the model instance, the one call of
\* SpecCom, the two calls of SpecConc
comVars == <<inst, com, th>>

medVars == <<minst, med, edit, v24>>

(***************************************************************************)
(* Python helpers                                                          *)
(***************************************************************************)

\* None of an Optional[list]: the code never stores an empty list in such a
\* field (it tests "if dropped_codes:" first), so <<>> is free to stand for it.
None == <<>>

SeqToSet(s) == {s[i] : i \in 1..Len(s)}

\* x in list
In(x, s) == \E i \in 1..Len(s) : s[i] = x

\* list.remove(x): deletes the first occurrence
RECURSIVE ListRemove(_, _)
ListRemove(s, x) ==
    IF s = <<>> THEN <<>>
    ELSE IF Head(s) = x THEN Tail(s)
    ELSE <<Head(s)>> \o ListRemove(Tail(s), x)

\* every duplicate-free sequence over S of length at most n: the orders in
\* which a Python set of at most n elements of S can be enumerated
RECURSIVE Orders(_, _)
Orders(S, n) ==
    IF n = 0 THEN {<<>>}
    ELSE {<<>>} \cup {<<x>> \o t : x \in S, t \in Orders(S, n - 1)}

NoDup(s) == \A i, j \in 1..Len(s) : s[i] = s[j] => i = j

(***************************************************************************)
(* Bounds                                                                  *)
(***************************************************************************)

\* largest number of disease categories handed to a hierarchy pass
MaxCats == 3

(***************************************************************************)
(* Part 1: the hierarchy pass                                              *)
(***************************************************************************)

\* hierarchy_definition.json tables. "closed" follows the published V28
\* hierarchies (each entry lists every lower category); "chain" is a table
\* whose entries list only the next lower category.
HierTables == {"closed", "chain"}

hierarchy_definitions(t) ==
    IF t = "closed" THEN
        [k \in {"HCC221", "HCC223", "HCC224", "HCC35", "HCC36", "HCC37"} |->
            [remove_code |->
                CASE k = "HCC221" -> <<"HCC222", "HCC223", "HCC224", "HCC225", "HCC226", "HCC227">>
                  [] k = "HCC223" -> <<"HCC224", "HCC225", "HCC226", "HCC227">>
                  [] k = "HCC224" -> <<"HCC225", "HCC226", "HCC227">>
                  [] k = "HCC35"  -> <<"HCC36", "HCC37", "HCC38">>
                  [] k = "HCC36"  -> <<"HCC37", "HCC38">>
                  [] k = "HCC37"  -> <<"HCC38">>]]
    ELSE
        [k \in {"HCC221", "HCC35", "HCC36"} |->
            [remove_code |->
                CASE k = "HCC221" -> <<"HCC224">>
                  [] k = "HCC35"  -> <<"HCC36">>
                  [] k = "HCC36"  -> <<"HCC37">>]]

\* the disease categories of the hierarchy part
HierCats == {"HCC221", "HCC223", "HCC224", "HCC35", "HCC36", "HCC37"}

\* a Category object as the hierarchy pass sees it
HierCategory(name) == [category |-> name, dropped_categories |-> None]

\* the inner loop of the pass: the declared targets of `name` that are in
\* category_list, in declared order
DroppedCodes(hd, name, category_list) ==
    IF name \in DOMAIN hd
    THEN SelectSeq(hd[name].remove_code, LAMBDA rc : In(rc, category_list))
    ELSE <<>>

\* a pass that suppresses nothing
Commercial_apply_hierarchies_keep_all(hd, categories) ==
    [final_categories |-> categories, dropped_categories |-> <<>>]

\* CommercialModel._apply_hierarchies: category_list is computed once and is
\* never changed while the categories are visited
Commercial_apply_hierarchies(hd, categories) ==
    LET category_list == [i \in 1..Len(categories) |-> categories[i].category]
        dropped_codes(i) == DroppedCodes(hd, categories[i].category, category_list)
        visited == [i \in 1..Len(categories) |->
                      IF dropped_codes(i) # <<>>
                      THEN [categories[i] EXCEPT !.dropped_categories = dropped_codes(i)]
                      ELSE categories[i]]
        dropped_codes_total ==
            UNION {SeqToSet(dropped_codes(i)) : i \in 1..Len(categories)}
    IN  [final_categories |->
            SelectSeq(visited, LAMBDA c : c.category \notin dropped_codes_total),
         dropped_categories |->
            SelectSeq(visited, LAMBDA c : c.category \in dropped_codes_total)]

\* a pass without the heart patch
HeartPatch_none(category_list) == {}

\* the V28 heart patch: decided on the category list the pass was given
HeartPatch(category_list) ==
    IF In("HCC223", category_list)
       /\ ~\E c \in {"HCC221", "HCC222", "HCC224", "HCC225", "HCC226"} : In(c, category_list)
    THEN {"HCC223"}
    ELSE {}

\* MedicareModelV28._apply_hierarchies: the same pass with the patch; it
\* returns the survivors only
V28_apply_hierarchies(hd, categories) ==
    LET category_list == [i \in 1..Len(categories) |-> categories[i].category]
        dropped_codes(i) == DroppedCodes(hd, categories[i].category, category_list)
        visited == [i \in 1..Len(categories) |->
                      IF dropped_codes(i) # <<>>
                      THEN [categories[i] EXCEPT !.dropped_categories = dropped_codes(i)]
                      ELSE categories[i]]
        dropped_codes_total ==
            HeartPatch(category_list)
            \cup UNION {SeqToSet(dropped_codes(i)) : i \in 1..Len(categories)}
    IN  [final_categories |->
            SelectSeq(visited, LAMBDA c : c.category \notin dropped_codes_total),
         dropped_categories |->
            SelectSeq(visited, LAMBDA c : c.category \in dropped_codes_total)]

\* BaseMedicareModel._apply_hierarchies, the for loop over category_list: the
\* list is changed while it is iterated. Python's list iterator keeps an
\* index: after the body it moves to the next index of the list as it then
\* is, and stops when the index is past the end. k is that index (from 1).
RECURSIVE RemoveTargets(_, _, _)
RemoveTargets(category_list, remove_code, dropped_codes) ==
    IF remove_code = <<>>
    THEN [category_list |-> category_list, dropped_codes |-> dropped_codes]
    ELSE IF In(Head(remove_code), category_list)
         THEN RemoveTargets(ListRemove(category_list, Head(remove_code)),
                            Tail(remove_code),
                            Append(dropped_codes, Head(remove_code)))
         ELSE RemoveTargets(category_list, Tail(remove_code), dropped_codes)

RECURSIVE BaseLoop(_, _, _, _, _)
BaseLoop(hd, category_list, k, categories_dict, dropped_codes_total) ==
    IF k > Len(category_list)
    THEN [category_list |-> category_list,
          categories_dict |-> categories_dict,
          dropped_codes_total |-> dropped_codes_total]
    ELSE LET category == category_list[k] IN
         IF category \in DOMAIN hd
         THEN LET r == RemoveTargets(category_list, hd[category].remove_code, <<>>)
              IN  BaseLoop(hd, r.category_list, k + 1,
                           (category :> r.dropped_codes) @@ categories_dict,
                           dropped_codes_total \cup SeqToSet(r.dropped_codes))
         ELSE BaseLoop(hd, category_list, k + 1, categories_dict, dropped_codes_total)

\* BaseMedicareModel._apply_hierarchies: returns (categories_dict,
\* category_list). The second loop stores None for every category left in the
\* list that was not dropped, also over what the first loop stored for it.
Base_apply_hierarchies(hd, categories) ==
    LET r == BaseLoop(hd, categories, 1, <<>>, {})
        left == {c \in SeqToSet(r.category_list) : c \notin r.dropped_codes_total}
    IN  [categories_dict |-> [c \in left |-> None] @@ r.categories_dict,
         category_list |-> r.category_list]

HierImpls == {"commercial", "v28", "base"}

\* one pass of implementation impl over the category names cats (objects
\* carry the dropped_categories an earlier pass left on them)
HierPass(impl, t, objs) ==
    LET hd == hierarchy_definitions(t)
        names == [i \in 1..Len(objs) |-> objs[i].category]
    IN  CASE impl = "commercial" ->
               LET r == Commercial_apply_hierarchies(hd, objs)
               IN  [survivors |-> r.final_categories, dropped |-> r.dropped_categories]
          [] impl = "v28" ->
               LET r == V28_apply_hierarchies(hd, objs)
               IN  [survivors |-> r.final_categories, dropped |-> r.dropped_categories]
          [] impl = "base" ->
               LET r == Base_apply_hierarchies(hd, names)
               IN  [survivors |->
                       [i \in 1..Len(r.category_list) |->
                           [category |-> r.category_list[i],
                            dropped_categories |->
                               IF r.category_list[i] \in DOMAIN r.categories_dict
                               THEN r.categories_dict[r.category_list[i]]
                               ELSE None]],
                    dropped |-> <<>>]

Names(objs) == [i \in 1..Len(objs) |-> objs[i].category]

(***************************************************************************)
(* Part 2: CommercialModel.score (CommercialModelV07)                      *)
(***************************************************************************)

\* a str() of None, and None where the code holds a string or None
NoneStr == "None"

\* round(n / d, 0) for n >= 0, d > 0 on exact decimals: Python 3 rounds a tie
\* to the even neighbour
RoundHalfEven(n, d) ==
    LET q == n \div d
        r == n % d
    IN  IF 2 * r < d THEN q
        ELSE IF 2 * r > d THEN q + 1
        ELSE IF q % 2 = 0 THEN q ELSE q + 1

\* int(s) of a decimal string
IntOf == [s \in {ToString(n) : n \in 0..120} |-> CHOOSE n \in 0..120 : ToString(n) = s]

ToInt(s) == IntOf[s]

\* the enumeration orders of a Python set
RECURSIVE Perms(_)
Perms(S) ==
    IF S = {} THEN {<<>>}
    ELSE UNION {{<<x>> \o p : p \in Perms(S \ {x})} : x \in S}

\* sum of a list of integers
RECURSIVE Sum(_)
Sum(s) == IF s = <<>> THEN 0 ELSE Head(s) + Sum(Tail(s))

\* ---- reference files of the Commercial model ----

\* weights.csv: one row per "<age group>_<category>" key,
\* <<age group, category, Silver, Bronze>>, coefficients in thousandths
ComWeightRows ==
    {<<"Adult", "MAGE_LAST_35_39", 210, 160>>,
     <<"Adult", "FAGE_LAST_35_39", 330, 270>>,
     <<"Adult", "HHS_HCC003", 9120, 8840>>,
     <<"Adult", "HHS_HCC004", 7650, 7410>>,
     <<"Adult", "HHS_HCC006", 5930, 5770>>,
     <<"Adult", "HHS_HCC018", 4810, 4640>>,
     <<"Adult", "HHS_HCC074", 4370, 4180>>,
     <<"Adult", "HHS_HCC183", 4810, 4640>>,
     <<"Adult", "HHS_HCC187", 1020, 940>>,
     <<"Adult", "G08", 4370, 4180>>,
     <<"Adult", "G16", 1020, 940>>,
     <<"Adult", "G24", 4810, 4640>>,
     <<"Adult", "RXC_04", 1910, 1640>>,
     <<"Adult", "RXC_04_x_HCC184_183_187_188", 270, 210>>,
     <<"Adult", "TRANSPLANT_HCC_COUNT4", 3720, 3590>>,
     <<"Adult", "HHS_HCC020", 420, 310>>,
     <<"Adult", "HHS_HCC021", 420, 310>>,
     <<"Adult", "HHS_HCC029", 2460, 2290>>,
     <<"Adult", "G01", 420, 310>>,
     <<"Adult", "RXC_06", 1680, 1410>>,
     <<"Adult", "RXC_07", 570, 430>>,
     <<"Adult", "RXC_06_x_HCC018_019_020_021", 340, 280>>,
     <<"Adult", "RXC_07_x_HCC018_019_020_021", 130, 90>>,
     <<"Adult", "SEVERE_HCC_COUNT1", 1010, 980>>,
     <<"Adult", "SEVERE_HCC_COUNT2", 2030, 1960>>,
     <<"Adult", "SEVERE_HCC_COUNT3", 3070, 2950>>,
     <<"Adult", "SEVERE_HCC_COUNT4", 4110, 3930>>,
     <<"Adult", "HCC_ED1", 290, 250>>,
     <<"Adult", "HCC_ED2", 260, 220>>,
     <<"Adult", "HCC_ED3", 230, 190>>,
     <<"Adult", "HCC_ED4", 190, 150>>,
     <<"Adult", "HCC_ED5", 150, 110>>,
     <<"Adult", "HCC_ED6", 110, 80>>,
     <<"Infant", "Age0_Male", 610, 540>>,
     <<"Infant", "Age1_Male", 100, 80>>,
     <<"Infant", "Age1_x_Severity1", 570, 330>>,
     <<"Infant", "Age1_x_Severity2", 1450, 1090>>,
     <<"Infant", "Age1_x_Severity3", 3100, 2830>>,
     <<"Infant", "Term_x_Severity1", 1700, 1110>>,
     <<"Infant", "Term_x_Severity2", 5790, 5180>>,
     <<"Infant", "Term_x_Severity3", 15520, 14830>>,
     <<"Child", "MAGE_LAST_10_14", 190, 120>>,
     <<"Child", "FAGE_LAST_10_14", 180, 110>>,
     <<"Child", "HHS_HCC003", 12730, 12470>>,
     <<"Child", "HHS_HCC004", 11250, 11010>>,
     <<"Child", "HHS_HCC020", 2350, 2040>>,
     <<"Child", "HHS_HCC021", 2350, 2040>>,
     <<"Child", "HHS_HCC028", 5510, 5260>>,
     <<"Child", "HHS_HCC029", 5510, 5260>>,
     <<"Child", "G01", 2350, 2040>>,
     <<"Child", "G02D", 5510, 5260>>,
     <<"Child", "SEVERE_HCC_COUNT1", 870, 810>>,
     <<"Child", "SEVERE_HCC_COUNT2", 1760, 1640>>,
     <<"Child", "SEVERE_HCC_COUNT3", 2690, 2500>>,
     <<"Child", "SEVERE_HCC_COUNT4", 3610, 3370>>}

\* ReferenceFilesLoader._get_category_weights: category key -> population ->
\* weight
com_category_weights ==
    [k \in {r[1] \o "_" \o r[2] : r \in ComWeightRows} |->
        LET r == CHOOSE r \in ComWeightRows : r[1] \o "_" \o r[2] = k
        IN  [Silver |-> r[3], Bronze |-> r[4]]]

\* every category name of the reference files
ComNames == {r[2] : r \in ComWeightRows}

ComRxNames == {"RXC_04", "RXC_06", "RXC_07"}

ComGroupNames == {"G01", "G02D", "G08", "G16", "G24"}

ComRxInteractionNames ==
    {"RXC_04_x_HCC184_183_187_188", "RXC_06_x_HCC018_019_020_021",
     "RXC_07_x_HCC018_019_020_021"}

ComDemographicNames ==
    {"MAGE_LAST_35_39", "FAGE_LAST_35_39", "MAGE_LAST_10_14", "FAGE_LAST_10_14",
     "Age0_Male", "Age1_Male"}

ComHccNames ==
    {"HHS_HCC003", "HHS_HCC004", "HHS_HCC006", "HHS_HCC018", "HHS_HCC020",
     "HHS_HCC021", "HHS_HCC028", "HHS_HCC029", "HHS_HCC074", "HHS_HCC183",
     "HHS_HCC187", "HHS_HCC249"}

\* category_definition.json: the type of every category; the tables drawn
\* give every category its name as description and no number
com_category_definitions ==
    [n \in ComNames |->
        [type |-> IF n \in ComDemographicNames THEN "demographic"
                  ELSE IF n \in ComHccNames THEN "disease"
                  ELSE IF n \in ComRxNames THEN "rx"
                  ELSE IF n \in ComGroupNames THEN "group"
                  ELSE "disease_interaction",
         number |-> NoneStr,
         descr |-> n]]

\* hierarchy_definition.json of the HHS model
com_hierarchy_definitions ==
    [k \in {"HHS_HCC003", "HHS_HCC018", "HHS_HCC020", "HHS_HCC183", "RXC_06"} |->
        [remove_code |->
            CASE k = "HHS_HCC003" -> <<"HHS_HCC004">>
              [] k = "HHS_HCC018" -> <<"HHS_HCC019", "HHS_HCC020", "HHS_HCC021">>
              [] k = "HHS_HCC020" -> <<"HHS_HCC021">>
              [] k = "HHS_HCC183" -> <<"HHS_HCC184", "HHS_HCC187", "HHS_HCC188">>
              [] k = "RXC_06"     -> <<"RXC_07">>]]

\* group_definition.json: per age group, member category -> group
com_group_definitions ==
    [g \in {"Adult", "Child"} |->
        IF g = "Adult"
        THEN ("HHS_HCC020" :> "G01") @@ ("HHS_HCC021" :> "G01")
             @@ ("HHS_HCC074" :> "G08") @@ ("HHS_HCC187" :> "G16")
             @@ ("HHS_HCC018" :> "G24") @@ ("HHS_HCC183" :> "G24")
        ELSE ("HHS_HCC020" :> "G01") @@ ("HHS_HCC021" :> "G01")
             @@ ("HHS_HCC028" :> "G02D") @@ ("HHS_HCC029" :> "G02D")]

\* the code-to-category maps, by code type
com_category_map ==
    [diag |-> ("A0101" :> <<"HHS_HCC003">>) @@ ("A871" :> <<"HHS_HCC004">>)
              @@ ("E119" :> <<"HHS_HCC021">>) @@ ("E11610" :> <<"HHS_HCC020">>)
              @@ ("E771" :> <<"HHS_HCC028">>) @@ ("E8029" :> <<"HHS_HCC029">>)
              @@ ("B3781" :> <<"HHS_HCC006">>) @@ ("D84821" :> <<"HHS_HCC074">>)
              @@ ("Z9483" :> <<"HHS_HCC018">>) @@ ("T8610" :> <<"HHS_HCC183">>)
              @@ ("I120" :> <<"HHS_HCC187">>) @@ ("Z3800" :> <<"HHS_HCC249">>),
     ndc  |-> ("00002147180" :> <<"RXC_07">>) @@ ("00004040109" :> <<"RXC_04">>),
     proc |-> ("J1817" :> <<"RXC_06">>)]

\* "RX" in category, category.startswith("RXC"): the names of the reference
\* files that contain the substring / start with the prefix
ContainsRX(category) == category \in ComRxNames \cup ComRxInteractionNames

StartsWithRXC(category) == category \in ComRxNames \cup ComRxInteractionNames

\* text in category.type
TypeContains(type, text) ==
    CASE text = "disease" -> type \in {"disease", "disease_interaction"}
      [] text = "demographic" -> type \in {"demographic", "demographic_interaction"}

\* Category(reference_files, risk_model_population, category, mapper_codes,
\* dropped_categories): the constructor looks the category up in the
\* reference files it is given; a missing entry raises KeyError
CategoryOK(rf, risk_model_population, category) ==
    /\ category \in DOMAIN com_category_definitions
    /\ category \in DOMAIN rf.category_weights
    /\ risk_model_population \in DOMAIN rf.category_weights[category]

Category(rf, risk_model_population, category, mapper_codes, dropped_categories) ==
    [category |-> category,
     type |-> com_category_definitions[category].type,
     number |-> com_category_definitions[category].number,
     description |-> com_category_definitions[category].descr,
     coefficient |-> rf.category_weights[category][risk_model_population],
     mapper_codes |-> mapper_codes,
     dropped_categories |-> dropped_categories]

\* ---- the beneficiary ----

\* CommercialBeneficiary._determine_age_group
determine_age_group(age) ==
    IF age < 2 THEN "Infant"
    ELSE IF 2 <= age /\ age < 21 THEN "Child"
    ELSE "Adult"

\* CommercialBeneficiary._determine_enrollment_months
determine_enrollment_months(enrollment_days) ==
    CASE 1 <= enrollment_days /\ enrollment_days <= 31 -> 1
      [] 32 <= enrollment_days /\ enrollment_days <= 62 -> 2
      [] 63 <= enrollment_days /\ enrollment_days <= 92 -> 3
      [] 93 <= enrollment_days /\ enrollment_days <= 123 -> 4
      [] 124 <= enrollment_days /\ enrollment_days <= 153 -> 5
      [] 154 <= enrollment_days /\ enrollment_days <= 184 -> 6
      [] 185 <= enrollment_days /\ enrollment_days <= 214 -> 7
      [] 215 <= enrollment_days /\ enrollment_days <= 245 -> 8
      [] 246 <= enrollment_days /\ enrollment_days <= 275 -> 9
      [] 276 <= enrollment_days /\ enrollment_days <= 306 -> 10
      [] 307 <= enrollment_days /\ enrollment_days <= 335 -> 11
      [] 336 <= enrollment_days /\ enrollment_days <= 366 -> 12
      [] OTHER -> 0

\* CommercialBeneficiary.__init__ for a call that passes age (dob is None, so
\* _determine_age returns age)
CommercialBeneficiary(args) ==
    [gender |-> args.gender,
     metal_level |-> args.metal_level,
     enrollment_days |-> args.enrollment_days,
     csr_indicator |-> args.csr_indicator,
     age |-> args.age,
     risk_model_age |-> args.age,
     risk_model_age_group |-> determine_age_group(args.age),
     risk_model_population |-> args.metal_level,
     enrollment_months |-> determine_enrollment_months(args.enrollment_days)]

\* ---- demographic category ----

\* an age range "lo_hi", "lo" or "lo_GT" as the parts split("_") returns
RangeName(age_band) ==
    IF Len(age_band) = 1 THEN age_band[1] ELSE age_band[1] \o "_" \o age_band[2]

\* utilities.determine_age_band: the first range that contains the age, or
\* None
RECURSIVE determine_age_band(_, _)
determine_age_band(age, age_ranges) ==
    IF age_ranges = <<>> THEN NoneStr
    ELSE LET age_band == Head(age_ranges)
             lower == ToInt(age_band[1])
             upper == IF Len(age_band) = 1 THEN lower + 1
                      ELSE IF age_band[2] = "GT" THEN 999
                      ELSE ToInt(age_band[2]) + 1
         IN  IF lower <= age /\ age < upper
             THEN RangeName(age_band)
             ELSE determine_age_band(age, Tail(age_ranges))

V07_demo_category_ranges ==
    << <<"2", "4">>, <<"5", "9">>, <<"10", "14">>, <<"15", "20">>,
       <<"21", "24">>, <<"25", "29">>, <<"30", "34">>, <<"35", "39">>,
       <<"40", "44">>, <<"45", "49">>, <<"50", "54">>, <<"55", "59">>,
       <<"60", "GT">> >>

\* CommercialModelV07._determine_age_gender_category
V07_determine_age_gender_category(age, gender) ==
    IF age < 2
    THEN IF gender = "F" THEN NoneStr ELSE "Age" \o ToString(age) \o "_Male"
    ELSE gender \o "AGE_LAST_" \o determine_age_band(age, V07_demo_category_ranges)

\* CommercialModel._determine_demographic_categories
determine_demographic_categories(beneficiary) ==
    LET demo_cat == V07_determine_age_gender_category(beneficiary.age, beneficiary.gender)
    IN  IF demo_cat # NoneStr THEN <<demo_cat>> ELSE <<>>

\* ---- code mapping ----

\* the diag table of the category map of the Medicare V24 model
v24_category_map ==
    [diag |-> [c \in {"D66", "D67", "J430", "J449", "F3481", "E119"} |->
                  CASE c \in {"D66", "D67"}   -> <<"HCC46">>
                    [] c \in {"J430", "J449"} -> <<"HCC111">>
                    [] c = "F3481"            -> <<"HCC59">>
                    [] c = "E119"             -> <<"HCC19">>]]

\* reference_files.category_map of the model version
category_map(version) ==
    IF version = "v24" THEN v24_category_map ELSE com_category_map

\* GenericCodeCategory.__init__: category_map[type].get(code, [None])
CodeCategory(version, type, code) ==
    [mapper_code |-> code,
     categories |-> IF code \in DOMAIN category_map(version)[type]
                    THEN category_map(version)[type][code]
                    ELSE <<NoneStr>>]

\* CommercialModelV07._age_sex_edit_12
V07_age_sex_edit_12(age, dx_code) ==
    IF age >= 21 /\ dx_code \in {"E71311", "E771"} THEN <<"NA">> ELSE None

\* CommercialModelV07._age_sex_edits: sixteen edits tried in order. Of the
\* diagnosis codes drawn here only E771 is in an edit's code list (edit 12),
\* so the other fifteen edits return None for every call made.
V07_age_sex_edits(gender, age, diagnosis_code) ==
    LET new_category == V07_age_sex_edit_12(age, diagnosis_code)
    IN  IF new_category # None THEN new_category ELSE None

\* MedicareModelV24._age_sex_edit_1
V24_age_sex_edit_1(gender, dx_code) ==
    IF gender = "F" /\ dx_code \in {"D66", "D67"} THEN <<"HCC48">> ELSE None

\* MedicareModelV24._age_sex_edit_2
V24_age_sex_edit_2(age, dx_code) ==
    IF age < 18 /\ dx_code \in {"J410", "J411", "J418", "J42", "J430", "J431", "J432",
                                "J438", "J439", "J440", "J441", "J449", "J982", "J983"}
    THEN <<"HCC112">> ELSE None

\* MedicareModelV24._age_sex_edit_3
V24_age_sex_edit_3(age, dx_code) ==
    IF (age < 6 \/ age > 18) /\ dx_code = "F3481" THEN <<"NA">> ELSE None

\* MedicareModelV24._age_sex_edits: the three edits in order, the first that
\* returns a category list ends the method; None when none applies
V24_age_sex_edits(gender, age, diagnosis_code) ==
    LET edit_1 == V24_age_sex_edit_1(gender, diagnosis_code)
        edit_2 == V24_age_sex_edit_2(age, diagnosis_code)
        edit_3 == V24_age_sex_edit_3(age, diagnosis_code)
    IN  IF edit_1 # None THEN edit_1
        ELSE IF edit_2 # None THEN edit_2
        ELSE IF edit_3 # None THEN edit_3
        ELSE None

\* self._age_sex_edits of the model version
age_sex_edits(version, gender, age, diagnosis_code) ==
    IF version = "v24"
    THEN V24_age_sex_edits(gender, age, diagnosis_code)
    ELSE V07_age_sex_edits(gender, age, diagnosis_code)

\* a _get_dx_categories that adds the edit's categories to the mapped ones
get_dx_categories_compose(version, diagnosis_codes, beneficiary) ==
    [i \in 1..Len(diagnosis_codes) |->
        LET dx == CodeCategory(version, "diag", diagnosis_codes[i])
            edit_category ==
                age_sex_edits(version, beneficiary.gender, beneficiary.age, dx.mapper_code)
        IN  [dx EXCEPT !.categories = dx.categories \o edit_category]]

\* CommercialModel._get_dx_categories (the method of every model version)
get_dx_categories(version, diagnosis_codes, beneficiary) ==
    [i \in 1..Len(diagnosis_codes) |->
        LET dx == CodeCategory(version, "diag", diagnosis_codes[i])
            edit_category ==
                age_sex_edits(version, beneficiary.gender, beneficiary.age, dx.mapper_code)
        IN  IF edit_category # None
            THEN [dx EXCEPT !.categories = edit_category]
            ELSE dx]

\* CommercialModel._get_ndc_categories, _get_proc_categories
get_code_categories(type, codes) ==
    [i \in 1..Len(codes) |-> CodeCategory("v07", type, codes[i])]

\* score l.173-184: the mapper objects of every code passed in
MapperCategories(args, beneficiary) ==
    get_dx_categories("v07", args.diagnosis_codes, beneficiary)
    \o get_code_categories("ndc", args.ndc_codes)
    \o get_code_categories("proc", args.proc_codes)

\* score l.188-195: the set of categories the codes map to
UniqueDiseaseCats(mapper_categories) ==
    {c \in UNION {SeqToSet(mapper_categories[i].categories) :
                      i \in 1..Len(mapper_categories)} :
        c # NoneStr /\ c # "NA"}

\* score l.197-208: cat_dict[category], the codes that map to the category
CatDict(mapper_categories, category) ==
    LET hits == SelectSeq(mapper_categories, LAMBDA m : In(category, m.categories))
    IN  [i \in 1..Len(hits) |-> hits[i].mapper_code]

\* ---- interactions ----

V07_severe_illness_hccs ==
    {"HHS_HCC002", "HHS_HCC003", "HHS_HCC004", "HHS_HCC006", "HHS_HCC018",
     "HHS_HCC023", "HHS_HCC034", "HHS_HCC041", "HHS_HCC042", "HHS_HCC096",
     "HHS_HCC121", "HHS_HCC122", "HHS_HCC125", "HHS_HCC126", "HHS_HCC127",
     "HHS_HCC128", "HHS_HCC129", "HHS_HCC135", "HHS_HCC145", "HHS_HCC156",
     "HHS_HCC158", "HHS_HCC163", "HHS_HCC183", "HHS_HCC218", "HHS_HCC223",
     "HHS_HCC251"}

V07_transplant_hccs ==
    {"HHS_HCC018", "HHS_HCC034", "HHS_HCC041", "HHS_HCC128", "HHS_HCC129",
     "HHS_HCC158", "HHS_HCC183", "HHS_HCC251"}

\* CommercialModelV07._determine_severe_illness_transplant_status
V07_determine_severe_illness_transplant_status(category_list) ==
    [severe_illness |-> \E c \in V07_severe_illness_hccs : In(c, category_list),
     transplant |-> \E c \in V07_transplant_hccs : In(c, category_list)]

\* An interaction dict is a sequence of [category, trigger_codes] entries in
\* insertion order; the keys written below are pairwise different.

\* CommercialModelV07._determine_child_interactions
V07_determine_child_interactions(severe_illness, transplant, category_count) ==
    (IF severe_illness
     THEN << [category |->
                 IF category_count <= 5
                 THEN "SEVERE_HCC_COUNT" \o ToString(category_count)
                 ELSE IF category_count <= 7 THEN "SEVERE_HCC_COUNT6_7"
                 ELSE "SEVERE_HCC_COUNT8PLUS",
              trigger_codes |-> None] >>
     ELSE <<>>)
    \o
    (IF transplant /\ category_count >= 4
     THEN << [category |-> "TRANSPLANT_HCC_COUNT4PLUS", trigger_codes |-> None] >>
     ELSE <<>>)

\* CommercialModelV07._determine_enrollment_duration_category
V07_determine_enrollment_duration_category(category_count, beneficiary) ==
    IF category_count > 0 /\ beneficiary.enrollment_months <= 6
    THEN "HCC_ED" \o ToString(beneficiary.enrollment_months)
    ELSE NoneStr

\* CommercialModelV07._determine_adult_interactions. Of the thirteen RXC
\* rules the kidney rule and the two diabetes rules are written out: the
\* others need an RXC category (RXC_01..03, 05, 08..10) that no code drawn
\* here maps to.
V07_determine_adult_interactions(category_list, severe_illness, transplant, category_count, beneficiary) ==
    LET diabetes ==
            SelectSeq(<<"HHS_HCC018", "HHS_HCC019", "HHS_HCC020", "HHS_HCC021">>,
                      LAMBDA c : In(c, category_list))
        kidney ==
            SelectSeq(<<"HHS_HCC183", "HHS_HCC184", "HHS_HCC187", "HHS_HCC188">>,
                      LAMBDA c : In(c, category_list))
        enrollment_duration ==
            V07_determine_enrollment_duration_category(category_count, beneficiary)
    IN  (IF In("RXC_04", category_list) /\ kidney # <<>>
         THEN << [category |-> "RXC_04_x_HCC184_183_187_188",
                  trigger_codes |-> <<"RXC_04">> \o kidney] >>
         ELSE <<>>)
        \o
        (IF In("RXC_06", category_list) /\ diabetes # <<>>
         THEN << [category |-> "RXC_06_x_HCC018_019_020_021",
                  trigger_codes |-> <<"RXC_06">> \o diabetes] >>
         ELSE <<>>)
        \o
        (IF In("RXC_07", category_list) /\ diabetes # <<>>
         THEN << [category |-> "RXC_07_x_HCC018_019_020_021",
                  trigger_codes |-> <<"RXC_07">> \o diabetes] >>
         ELSE <<>>)
        \o
        (IF severe_illness
         THEN << [category |->
                     IF category_count <= 9
                     THEN "SEVERE_HCC_COUNT" \o ToString(category_count)
                     ELSE "SEVERE_HCC_COUNT10PLUS",
                  trigger_codes |-> None] >>
         ELSE <<>>)
        \o
        (IF transplant /\ category_count >= 4
         THEN << [category |->
                     IF category_count <= 7
                     THEN "TRANSPLANT_HCC_COUNT" \o ToString(category_count)
                     ELSE "TRANSPLANT_HCC_COUNT8PLUS",
                  trigger_codes |-> None] >>
         ELSE <<>>)
        \o
        (IF enrollment_duration # NoneStr
         THEN << [category |-> enrollment_duration, trigger_codes |-> None] >>
         ELSE <<>>)

\* CommercialModelV07._determine_interactions up to the interaction dict
V07_interaction_dict(categories, beneficiary) ==
    LET disease == SelectSeq(categories, LAMBDA c : c.type \in {"disease", "group", "rx"})
        category_list == [i \in 1..Len(disease) |-> disease[i].category]
        status == V07_determine_severe_illness_transplant_status(category_list)
        category_count ==
            Len(SelectSeq(category_list,
                          LAMBDA c : ~StartsWithRXC(c) /\ c # "HHS_HCC022"))
    IN  IF beneficiary.risk_model_age_group = "Child"
        THEN V07_determine_child_interactions(status.severe_illness,
                                              status.transplant, category_count)
        ELSE V07_determine_adult_interactions(category_list, status.severe_illness,
                                              status.transplant, category_count,
                                              beneficiary)

\* a step that returns the interaction categories without the categories
\* passed in
V07_interactions_only(rf, categories, beneficiary) ==
    LET interaction_dict == V07_interaction_dict(categories, beneficiary)
    IN  [raised |-> FALSE,
         categories |->
             [i \in 1..Len(interaction_dict) |->
                 Category(rf, beneficiary.risk_model_population,
                          interaction_dict[i].category,
                          interaction_dict[i].trigger_codes, None)]]

\* CommercialModelV07._determine_interactions: the interaction categories
\* come first, the categories passed in follow. raised: a Category
\* constructor found no entry.
V07_determine_interactions(rf, categories, beneficiary) ==
    LET interaction_dict == V07_interaction_dict(categories, beneficiary)
        population == beneficiary.risk_model_population
    IN  IF \E i \in 1..Len(interaction_dict) :
               ~CategoryOK(rf, population, interaction_dict[i].category)
        THEN [raised |-> TRUE, categories |-> <<>>]
        ELSE [raised |-> FALSE,
              categories |->
                  [i \in 1..Len(interaction_dict) |->
                      Category(rf, population, interaction_dict[i].category,
                               interaction_dict[i].trigger_codes, None)]
                  \o categories]

\* ---- groups ----

\* the distinct elements of a list in the order of their first occurrence:
\* the key order of a dict filled while the list is read
RECURSIVE FirstOccurrences(_)
FirstOccurrences(s) ==
    IF s = <<>> THEN <<>>
    ELSE <<Head(s)>> \o FirstOccurrences(SelectSeq(Tail(s), LAMBDA x : x # Head(s)))

\* a groups step that adds one group category for every member it finds
Commercial_apply_groups_per_member(rf, categories, beneficiary) ==
    LET gd == rf.group_definitions
        category_list == [i \in 1..Len(categories) |-> categories[i].category]
        dropped_codes_total == SelectSeq(category_list, LAMBDA c : c \in DOMAIN gd)
        population == beneficiary.risk_model_population
    IN  [raised |-> FALSE,
         final_categories |->
             SelectSeq(categories, LAMBDA c : ~In(c.category, dropped_codes_total))
             \o [i \in 1..Len(dropped_codes_total) |->
                    Category(rf, population, gd[dropped_codes_total[i]],
                             <<dropped_codes_total[i]>>, <<dropped_codes_total[i]>>)],
         dropped_categories |->
             SelectSeq(categories, LAMBDA c : In(c.category, dropped_codes_total))]

\* CommercialModel._apply_groups
Commercial_apply_groups(rf, categories, beneficiary) ==
    LET gd == rf.group_definitions
        category_list == [i \in 1..Len(categories) |-> categories[i].category]
        dropped_codes_total == SelectSeq(category_list, LAMBDA c : c \in DOMAIN gd)
        group_keys ==
            FirstOccurrences([i \in 1..Len(dropped_codes_total) |->
                                 gd[dropped_codes_total[i]]])
        group_dict(g) == SelectSeq(dropped_codes_total, LAMBDA c : gd[c] = g)
        population == beneficiary.risk_model_population
    IN  IF \E i \in 1..Len(group_keys) : ~CategoryOK(rf, population, group_keys[i])
        THEN [raised |-> TRUE, final_categories |-> <<>>, dropped_categories |-> <<>>]
        ELSE [raised |-> FALSE,
              final_categories |->
                  SelectSeq(categories, LAMBDA c : ~In(c.category, dropped_codes_total))
                  \o [i \in 1..Len(group_keys) |->
                         Category(rf, population, group_keys[i],
                                  group_dict(group_keys[i]), group_dict(group_keys[i]))],
              dropped_categories |->
                  SelectSeq(categories, LAMBDA c : In(c.category, dropped_codes_total))]

\* ---- the steps of CommercialModel.score ----

\* CommercialModel._get_csr_adjuster, in hundredths. The keys of the table
\* are the strings "1".."4"; csr_indicator is [type, value] so that the int 2
\* and the str "2" are different keys, as they are for dict.get
csr_adjuster_dict ==
    [year \in 2019..2025 |->
        ("1" :> 100) @@ ("2" :> 107) @@ ("3" :> 112) @@ ("4" :> 115)]

get_csr_adjuster(year, csr_indicator) ==
    IF year \in DOMAIN csr_adjuster_dict
    THEN IF csr_indicator.type = "str"
            /\ csr_indicator.value \in DOMAIN csr_adjuster_dict[year]
         THEN csr_adjuster_dict[year][csr_indicator.value]
         ELSE 100
    ELSE 100

\* CommercialModel._apply_csr_adj: round(score * self.csr_adjuster, 3), score
\* in thousandths and the adjuster in hundredths
apply_csr_adj(rf, score) == RoundHalfEven(score * rf.csr_adjuster, 100)

\* score l.164-168: the weights of one age group, keyed by category
PareWeights(category_weights, age_group) ==
    [n \in {n \in ComNames : (age_group \o "_" \o n) \in DOMAIN category_weights} |->
        category_weights[age_group \o "_" \o n]]

\* score l.169-171: group_definitions.get(age_group)
PareGroups(group_definitions, age_group) ==
    IF age_group \in DOMAIN group_definitions
    THEN group_definitions[age_group]
    ELSE None

\* category details that hold every field whatever the verbose flag is
build_category_details_all_fields(categories, verbose) ==
    [n \in {categories[i].category : i \in 1..Len(categories)} |->
        LET category == categories[CHOOSE i \in 1..Len(categories) :
                                       categories[i].category = n]
        IN  [coefficient |-> category.coefficient,
             type |-> category.type,
             category_number |-> category.number,
             category_description |-> category.description,
             dropped_categories |-> category.dropped_categories,
             trigger_code_map |-> category.mapper_codes]]

\* CommercialModel._build_category_details
build_category_details(categories, verbose) ==
    [n \in {categories[i].category : i \in 1..Len(categories)} |->
        LET i == CHOOSE i \in 1..Len(categories) :
                    /\ categories[i].category = n
                    /\ \A j \in (i + 1)..Len(categories) : categories[j].category # n
            category == categories[i]
        IN  IF verbose
            THEN [coefficient |-> category.coefficient,
                  type |-> category.type,
                  category_number |-> category.number,
                  category_description |-> category.description,
                  dropped_categories |-> category.dropped_categories,
                  trigger_code_map |-> category.mapper_codes]
            ELSE [coefficient |-> category.coefficient,
                  trigger_code_map |-> category.mapper_codes]]

\* ---- the Infant model ----


\* CommercialModelV07._determine_infant_severity_level: the first list, from
\* Severity5 down, that holds one of the categories; Severity1 if none does
V07_determine_infant_severity_level(model_year, category_list) ==
    LET lists ==
            <<{"HHS_HCC008", "HHS_HCC018", "HHS_HCC034", "HHS_HCC041", "HHS_HCC042",
              "HHS_HCC125", "HHS_HCC128", "HHS_HCC129", "HHS_HCC130", "HHS_HCC137",
              "HHS_HCC158", "HHS_HCC183", "HHS_HCC184", "HHS_HCC251"},
             {"HHS_HCC002", "HHS_HCC009", "HHS_HCC026", "HHS_HCC030", "HHS_HCC035_1",
              "HHS_HCC035_2", "HHS_HCC064", "HHS_HCC067", "HHS_HCC068", "HHS_HCC073",
              "HHS_HCC106", "HHS_HCC107", "HHS_HCC111", "HHS_HCC112", "HHS_HCC115",
              "HHS_HCC122", "HHS_HCC126", "HHS_HCC127", "HHS_HCC131", "HHS_HCC135",
              "HHS_HCC138", "HHS_HCC145", "HHS_HCC146", "HHS_HCC154", "HHS_HCC156",
              "HHS_HCC163", "HHS_HCC187", "HHS_HCC253"},
             {"HHS_HCC001", "HHS_HCC003", "HHS_HCC006", "HHS_HCC010", "HHS_HCC011",
              "HHS_HCC012", "HHS_HCC027", "HHS_HCC045", "HHS_HCC054", "HHS_HCC055",
              "HHS_HCC061", "HHS_HCC063", "HHS_HCC066", "HHS_HCC074", "HHS_HCC075",
              "HHS_HCC081", "HHS_HCC082", "HHS_HCC083", "HHS_HCC084", "HHS_HCC096",
              "HHS_HCC108", "HHS_HCC109", "HHS_HCC110", "HHS_HCC113", "HHS_HCC114",
              "HHS_HCC117", "HHS_HCC119", "HHS_HCC121", "HHS_HCC132", "HHS_HCC139",
              "HHS_HCC142", "HHS_HCC149", "HHS_HCC150", "HHS_HCC159", "HHS_HCC218",
              "HHS_HCC223", "HHS_HCC226", "HHS_HCC228"},
             {"HHS_HCC004", "HHS_HCC013", "HHS_HCC019", "HHS_HCC020", "HHS_HCC021",
              "HHS_HCC023", "HHS_HCC028", "HHS_HCC029", "HHS_HCC036", "HHS_HCC046",
              "HHS_HCC047", "HHS_HCC048", "HHS_HCC056", "HHS_HCC057", "HHS_HCC062",
              "HHS_HCC069", "HHS_HCC070", "HHS_HCC097", "HHS_HCC120", "HHS_HCC151",
              "HHS_HCC153", "HHS_HCC160", "HHS_HCC161_1", "HHS_HCC162", "HHS_HCC188",
              "HHS_HCC217", "HHS_HCC219"} \cup (IF model_year = 2025 THEN {"HHS_HCC071"} ELSE {}),
             {"HHS_HCC037_1", "HHS_HCC037_2", "HHS_HCC071", "HHS_HCC102", "HHS_HCC103",
              "HHS_HCC118", "HHS_HCC161_2", "HHS_HCC234", "HHS_HCC254"} \ (IF model_year = 2025 THEN {"HHS_HCC071"} ELSE {})>>
        hit(i) == \E c \in lists[i] : In(c, category_list)
    IN  IF \E i \in 1..4 : hit(i)
        THEN "Severity" \o ToString(6 - (CHOOSE i \in 1..4 : hit(i) /\ \A j \in 1..(i - 1) : ~hit(j)))
        ELSE "Severity1"

\* CommercialModelV07._determine_infant_maturity_status
V07_determine_infant_maturity_status(category_list, beneficiary) ==
    LET any(names) == \E c \in names : In(c, category_list)
    IN  IF beneficiary.age = 1 THEN "Age1"
        ELSE IF any({"HHS_HCC242", "HHS_HCC243", "HHS_HCC244"}) THEN "Extremely_Immature"
        ELSE IF any({"HHS_HCC245", "HHS_HCC246"}) THEN "Immature"
        ELSE IF any({"HHS_HCC247", "HHS_HCC248"}) THEN "Premature_Multiples"
        ELSE IF In("HHS_HCC249", category_list) THEN "Term"
        ELSE "Age1"

\* category.startswith("HHS_HCC")
StartsWithHHS_HCC(category) == category \in ComHccNames

\* CommercialModel._determine_infant_categories, the names of the Category
\* objects in the order of the list: "not in 'Age0_Male'" is a substring
\* test, and Age0_Male is the one name of the reference files that is a
\* substring of it
determine_infant_categories(model_year, unique_categories, beneficiary) ==
    LET categories == SelectSeq(unique_categories, LAMBDA c : ~StartsWithHHS_HCC(c))
        maturity_status == V07_determine_infant_maturity_status(unique_categories, beneficiary)
        severity_level == V07_determine_infant_severity_level(model_year, unique_categories)
        with_interaction ==
            IF maturity_status # NoneStr /\ severity_level # NoneStr
            THEN Append(categories, maturity_status \o "_x_" \o severity_level)
            ELSE categories
    IN  IF beneficiary.age = 0 /\ beneficiary.gender = "M" /\ maturity_status = "Age1"
        THEN SelectSeq(Append(with_interaction, "Age1_Male"), LAMBDA c : c # "Age0_Male")
        ELSE with_interaction

\* One call of score is the record below: pc is the step the call executes
\* next, order the order in which list(unique_disease_cats) enumerates the
\* set, the other fields the call's local variables.
IdleCall ==
    [pc |-> "idle", args |-> <<>>, order |-> <<>>, beneficiary |-> <<>>,
     categories |-> <<>>, dropped_hierarchy |-> <<>>, groups_in |-> <<>>,
     dropped_group |-> <<>>, result |-> <<>>]

\* score l.147-156
BeginCall(args, order) ==
    [IdleCall EXCEPT !.pc = "csr", !.args = args, !.order = order,
                     !.beneficiary = CommercialBeneficiary(args)]

Raise(rf, call) ==
    [inst |-> rf, call |-> [call EXCEPT !.pc = "raised", !.result = [error |-> "KeyError"]]]

\* score l.157
StepCsr(rf, call) ==
    [inst |-> [rf EXCEPT !.csr_adjuster =
                  get_csr_adjuster(rf.model_year, call.args.csr_indicator)],
     call |-> [call EXCEPT !.pc = "weights"]]

\* a weights step that pares the table the instance holds from the call
\* before
StepWeights_of_held(rf, call) ==
    [inst |-> [rf EXCEPT !.category_weights =
                  PareWeights(rf.category_weights,
                              call.beneficiary.risk_model_age_group)],
     call |-> [call EXCEPT !.pc = "group_definitions"]]

\* score l.164-168
StepWeights(rf, call) ==
    [inst |-> [rf EXCEPT !.category_weights =
                  PareWeights(rf.reference_files.category_weights,
                              call.beneficiary.risk_model_age_group)],
     call |-> [call EXCEPT !.pc = "group_definitions"]]

\* score l.169-171
StepGroupDefinitions(rf, call) ==
    [inst |-> [rf EXCEPT !.group_definitions =
                  PareGroups(rf.reference_files.group_definitions,
                             call.beneficiary.risk_model_age_group)],
     call |-> [call EXCEPT !.pc = "categories"]]

\* score l.173-256: the demographic and the mapped categories are built;
\* the Infant model goes on to the result with the categories of
\* _determine_infant_categories and nothing dropped, the Adult and the Child
\* model apply the hierarchies
StepCategories(rf, call) ==
    LET beneficiary == call.beneficiary
        demo_categories == determine_demographic_categories(beneficiary)
        mapper_categories == MapperCategories(call.args, beneficiary)
        unique_categories == demo_categories \o call.order
        kept == IF beneficiary.risk_model_age_group = "Child"
                THEN SelectSeq(unique_categories, LAMBDA c : ~ContainsRX(c))
                ELSE unique_categories
        population == beneficiary.risk_model_population
        infant == determine_infant_categories(rf.model_year, unique_categories, beneficiary)
    IN  IF beneficiary.risk_model_age_group = "Infant"
        THEN IF \E i \in 1..Len(infant) : ~CategoryOK(rf, population, infant[i])
             THEN Raise(rf, call)
             ELSE [inst |-> rf,
                   call |-> [call EXCEPT
                       !.pc = "result",
                       !.categories =
                           [i \in 1..Len(infant) |->
                               Category(rf, population, infant[i], None, None)]]]
        ELSE IF \E i \in 1..Len(kept) : ~CategoryOK(rf, population, kept[i])
        THEN Raise(rf, call)
        ELSE LET categories ==
                     [i \in 1..Len(kept) |->
                         Category(rf, population, kept[i],
                                  CatDict(mapper_categories, kept[i]), None)]
                 r == Commercial_apply_hierarchies(com_hierarchy_definitions, categories)
             IN  [inst |-> rf,
                  call |-> [call EXCEPT !.pc = "interactions",
                                        !.categories = r.final_categories,
                                        !.dropped_hierarchy = r.dropped_categories]]

\* a call that goes on to the groups step with the categories the
\* hierarchies left
StepInteractions_skipped(rf, call) ==
    [inst |-> rf, call |-> [call EXCEPT !.pc = "groups"]]

\* score l.257
StepInteractions(rf, call) ==
    LET r == V07_determine_interactions(rf, call.categories, call.beneficiary)
    IN  IF r.raised THEN Raise(rf, call)
        ELSE [inst |-> rf,
              call |-> [call EXCEPT !.pc = "groups", !.categories = r.categories]]

\* a groups step that does not record the categories the groups replaced
StepGroups_unrecorded(rf, call) ==
    LET r == Commercial_apply_groups(rf, call.categories, call.beneficiary)
    IN  IF r.raised THEN Raise(rf, call)
        ELSE [inst |-> rf,
              call |-> [call EXCEPT !.pc = "result",
                                    !.groups_in = call.categories,
                                    !.categories = r.final_categories]]

\* score l.258-266
StepGroups(rf, call) ==
    LET r == Commercial_apply_groups(rf, call.categories, call.beneficiary)
    IN  IF r.raised THEN Raise(rf, call)
        ELSE [inst |-> rf,
              call |-> [call EXCEPT !.pc = "result",
                                    !.groups_in = call.categories,
                                    !.categories = r.final_categories,
                                    !.dropped_group = r.dropped_categories]]

\* score l.268-323
StepResult(rf, call) ==
    LET categories == call.categories
        dropped_categories == call.dropped_hierarchy \o call.dropped_group
        coefficients(cs) == [i \in 1..Len(cs) |-> cs[i].coefficient]
        score_raw == Sum(coefficients(categories))
        disease_score_raw ==
            Sum(coefficients(SelectSeq(categories,
                                       LAMBDA c : TypeContains(c.type, "disease"))))
        demographic_score_raw ==
            Sum(coefficients(SelectSeq(categories,
                                       LAMBDA c : TypeContains(c.type, "demographic"))))
        beneficiary == call.beneficiary
    IN  [inst |-> rf,
         call |-> [call EXCEPT
            !.pc = "returned",
            !.result =
                [gender |-> beneficiary.gender,
                 metal_level |-> beneficiary.metal_level,
                 enrollment_days |-> beneficiary.enrollment_days,
                 csr_indicator |-> beneficiary.csr_indicator,
                 age |-> beneficiary.age,
                 enrollment_months |-> beneficiary.enrollment_months,
                 diagnosis_codes |-> call.args.diagnosis_codes,
                 risk_model_age |-> beneficiary.risk_model_age,
                 risk_model_population |-> beneficiary.risk_model_population,
                 model_year |-> rf.model_year,
                 csr_adjuster |-> rf.csr_adjuster,
                 score_raw |-> score_raw,
                 disease_score_raw |-> disease_score_raw,
                 demographic_score_raw |-> demographic_score_raw,
                 score |-> apply_csr_adj(rf, score_raw),
                 disease_score |-> apply_csr_adj(rf, disease_score_raw),
                 demographic_score |-> apply_csr_adj(rf, demographic_score_raw),
                 category_list |-> Names(categories),
                 category_details |->
                     build_category_details(categories, call.args.verbose),
                 dropped_category_list |-> Names(dropped_categories),
                 dropped_category_details |->
                     IF dropped_categories # <<>>
                     THEN build_category_details(dropped_categories, call.args.verbose)
                     ELSE None]]]

\* the step a call at call.pc executes
Step(rf, call) ==
    CASE call.pc = "csr" -> StepCsr(rf, call)
      [] call.pc = "weights" -> StepWeights(rf, call)
      [] call.pc = "group_definitions" -> StepGroupDefinitions(rf, call)
      [] call.pc = "categories" -> StepCategories(rf, call)
      [] call.pc = "interactions" -> StepInteractions(rf, call)
      [] call.pc = "groups" -> StepGroups(rf, call)
      [] call.pc = "result" -> StepResult(rf, call)

CallOver(call) == call.pc \in {"returned", "raised"}

\* a call run from where it is to its end with no other call in between
RECURSIVE RunCall(_, _)
RunCall(rf, call) ==
    IF CallOver(call) THEN [inst |-> rf, call |-> call]
    ELSE LET r == Step(rf, call) IN RunCall(r.inst, r.call)

\* the orders in which the call can enumerate its set of mapped categories
CallOrders(args) ==
    Perms(UniqueDiseaseCats(MapperCategories(args, CommercialBeneficiary(args))))

(***************************************************************************)
(* Part 3: BaseMedicareModel.score                                         *)
(***************************************************************************)

\* ---- reference files of the Medicare model ----

\* rows <<category, type, CNA weight, new enrollee weight>> of
\* category_definition.json and weights.csv, weights in thousandths
MedRows ==
    { <<"M35_44", "demographic", 305, 0>>, <<"M65_69", "demographic", 308, 0>>,
      <<"M70_74", "demographic", 394, 0>>, <<"F35_44", "demographic", 314, 0>>,
      <<"F65_69", "demographic", 323, 0>>, <<"F70_74", "demographic", 386, 0>>,
      <<"NEM35_44", "demographic", 0, 658>>, <<"NEM65", "demographic", 0, 514>>,
      <<"NEM70_74", "demographic", 0, 737>>, <<"NEF35_44", "demographic", 0, 911>>,
      <<"NEF65", "demographic", 0, 522>>, <<"NEF70_74", "demographic", 0, 686>>,
      <<"OriginallyDisabled_Male", "demographic_interaction", 147, 0>>,
      <<"OriginallyDisabled_Female", "demographic_interaction", 244, 0>>,
      <<"HCC35", "disease", 1283, 1283>>, <<"HCC36", "disease", 166, 166>>,
      <<"HCC37", "disease", 166, 166>> }

NEPopulations ==
    {"NE_NMCAID_NORIGDIS", "NE_MCAID_NORIGDIS", "NE_NMCAID_ORIGDIS", "NE_MCAID_ORIGDIS"}

\* category_definition.json of the file set t: "consistent", or a set in
\* which one file lacks a category that another file has; every category
\* has its name as descr and no number
med_category_definitions(t) ==
    [c \in {r[1] : r \in MedRows} \ (IF t = "no_definition" THEN {"HCC37"} ELSE {}) |->
        [type |-> (CHOOSE r \in MedRows : r[1] = c)[2], descr |-> c]]

\* weights.csv: category_weights[category][population], a column for every
\* population
med_category_weights(t) ==
    [c \in {r[1] : r \in MedRows} \ (IF t = "no_weight" THEN {"HCC36"} ELSE {}) |->
        [p \in {"CNA"} \cup NEPopulations |->
            LET r == CHOOSE r \in MedRows : r[1] = c
            IN  IF p = "CNA" THEN r[3] ELSE r[4]]]

\* diag_to_category_map.txt
med_diag_to_category_map ==
    [c \in {"Z9483", "E1010", "E1122"} |->
        CASE c = "Z9483" -> <<"HCC35">>
          [] c = "E1010" -> <<"HCC36">>
          [] c = "E1122" -> <<"HCC37">>]

\* the adjusters of an instance in thousandths: the defaults of the base
\* class, and 1 - 0.059 with the normalization factor of V28 and of V24
MedAdjusters ==
    { [coding_intesity_adjuster |-> 1000, normalization_factor |-> 1000],
      [coding_intesity_adjuster |-> 941, normalization_factor |-> 1015],
      [coding_intesity_adjuster |-> 941, normalization_factor |-> 1146] }

\* BaseMedicareModel.__init__
NewMedInstance(t, adj) ==
    [hierarchy_definitions |-> hierarchy_definitions("closed"),
     category_definitions |-> med_category_definitions(t),
     diag_to_category_map |-> med_diag_to_category_map,
     category_weights |-> med_category_weights(t),
     coding_intesity_adjuster |-> adj.coding_intesity_adjuster,
     normalization_factor |-> adj.normalization_factor]

\* ---- demographic categories ----

\* population[:2] == "NE"
StartsWithNE(population) == population \in NEPopulations \cup {"NE"}

\* flags in which everyone of orec "1" or "3" is originally disabled
Med_determine_disabled_any_age(age, orec) ==
    [disabled |-> IF age < 65 /\ orec # "0" THEN 1 ELSE 0,
     orig_disabled |-> IF orec \in {"1", "3"} THEN 1 ELSE 0]

\* BaseMedicareModel._determine_disabled
Med_determine_disabled(age, orec) ==
    LET disabled == IF age < 65 /\ orec # "0" THEN 1 ELSE 0
    IN  [disabled |-> disabled,
         orig_disabled |-> IF orec \in {"1", "3"} /\ disabled = 0 THEN 1 ELSE 0]

\* a population that is ORIGDIS for every orec "1", whatever the age
Med_get_new_enrollee_population_any_age(age, orec, medicaid) ==
    "NE_" \o (IF medicaid THEN "MCAID" ELSE "NMCAID") \o "_"
    \o (IF orec = "1" THEN "ORIGDIS" ELSE "NORIGDIS")

\* BaseMedicareModel._get_new_enrollee_population
Med_get_new_enrollee_population(age, orec, medicaid) ==
    LET ne_originally_disabled == age >= 65 /\ orec = "1"
    IN  CASE ~ne_originally_disabled /\ ~medicaid -> "NE_NMCAID_NORIGDIS"
          [] ~ne_originally_disabled /\ medicaid  -> "NE_MCAID_NORIGDIS"
          [] ne_originally_disabled /\ ~medicaid  -> "NE_NMCAID_ORIGDIS"
          [] ne_originally_disabled /\ medicaid   -> "NE_MCAID_ORIGDIS"

\* the age ranges of the Medicare models, as the parts split("_") returns
Med_demo_category_ranges(population) ==
    IF StartsWithNE(population)
    THEN << <<"0", "34">>, <<"35", "44">>, <<"45", "54">>, <<"55", "59">>,
            <<"60", "64">>, <<"65">>, <<"66">>, <<"67">>, <<"68">>, <<"69">>,
            <<"70", "74">>, <<"75", "79">>, <<"80", "84">>, <<"85", "89">>,
            <<"90", "94">>, <<"95", "GT">> >>
    ELSE << <<"0", "34">>, <<"35", "44">>, <<"45", "54">>, <<"55", "59">>,
            <<"60", "64">>, <<"65", "69">>, <<"70", "74">>, <<"75", "79">>,
            <<"80", "84">>, <<"85", "89">>, <<"90", "94">>, <<"95", "GT">> >>

\* BaseMedicareModel._determine_demographic_cats, the same statements as
\* MedicareModelV24._determine_age_gender_category: the f-string formats a
\* range of None as "None"
Med_determine_demographic_cats(age, gender, population) ==
    LET demographic_category_range ==
            determine_age_band(age, Med_demo_category_ranges(population))
    IN  IF StartsWithNE(population)
        THEN "NE" \o gender \o demographic_category_range
        ELSE gender \o demographic_category_range

\* BaseMedicareModel._get_demographic_interactions
Med_get_demographic_interactions(gender, orig_disabled) ==
    IF gender = "F" /\ orig_disabled = 1 THEN "OriginallyDisabled_Female"
    ELSE IF gender = "M" /\ orig_disabled = 1 THEN "OriginallyDisabled_Male"
    ELSE NoneStr

\* BaseMedicareModel.determine_demographic_cats
Med_demographic_cats(age, gender, orec, population) ==
    LET demo_int ==
            Med_get_demographic_interactions(gender, Med_determine_disabled(age, orec).orig_disabled)
    IN  <<Med_determine_demographic_cats(age, gender, population)>>
        \o (IF demo_int # NoneStr THEN <<demo_int>> ELSE <<>>)

\* ---- disease categories ----

\* BaseMedicareModel._get_disease_categories: dx_categories as the list of
\* its items in insertion order, unique_cats the set of their categories.
\* Codes passed as a list are tested against the map; a code passed as a str
\* is looked up without the test. _age_sex_edits of the base class returns
\* the category list it is given.
Med_get_disease_categories(m, gender, age, diagnosis_codes) ==
    LET map == m.diag_to_category_map
        keys == IF diagnosis_codes.type = "list"
                THEN FirstOccurrences(
                         SelectSeq(diagnosis_codes.value, LAMBDA diag : diag \in DOMAIN map))
                ELSE diagnosis_codes.value
    IN  IF diagnosis_codes.type # "list" /\ diagnosis_codes.value[1] \notin DOMAIN map
        THEN [raised |-> TRUE, dx_categories |-> <<>>, unique_cats |-> {}]
        ELSE [raised |-> FALSE,
              dx_categories |->
                 [i \in 1..Len(keys) |-> [diagnosis_code |-> keys[i], category |-> map[keys[i]]]],
              unique_cats |-> UNION {SeqToSet(map[keys[i]]) : i \in 1..Len(keys)}]

\* BaseMedicareModel.determine_disease_categories; order is the order in
\* which the set unique_cats is enumerated. _determine_disease_interactions
\* of the base class returns the list it is given, which is then extended
\* with itself. keys is the insertion order of final_cat_dict.
Med_determine_disease_categories(m, dx_categories, order) ==
    LET h == Base_apply_hierarchies(m.hierarchy_definitions, order)
        interactions == h.category_list
        categories == IF interactions # <<>>
                      THEN h.category_list \o interactions
                      ELSE h.category_list
        keys == FirstOccurrences(categories)
        codes(cat) == SelectSeq(dx_categories, LAMBDA dx : In(cat, dx.category))
    IN  [keys |-> keys,
         final_cat_dict |->
            [cat \in SeqToSet(keys) |->
                [dropped_categories |->
                    IF cat \in DOMAIN h.categories_dict
                    THEN h.categories_dict[cat] ELSE None,
                 diagnosis_map |->
                    [i \in 1..Len(codes(cat)) |-> codes(cat)[i].diagnosis_code]]]]

\* ---- weights and scores ----

\* a score adjusted with one rounding, after the division
Med_apply_norm_factor_coding_adj_once(m, score) ==
    RoundHalfEven(score * m.coding_intesity_adjuster * 10, m.normalization_factor)

\* BaseMedicareModel._apply_norm_factor_coding_adj: score and the adjusters
\* in thousandths, the result in ten-thousandths
Med_apply_norm_factor_coding_adj(m, score) ==
    RoundHalfEven(RoundHalfEven(score * m.coding_intesity_adjuster, 100) * 1000,
                  m.normalization_factor)

\* BaseMedicareModel.get_weights: a category that is no key of
\* category_definitions passes the loop without a statement executed; the
\* lookup category_weights[cat][population] raises KeyError. Raw scores in
\* thousandths, adjusted scores in ten-thousandths.
Med_get_weights(m, categories, population) ==
    LET defined == SelectSeq(categories, LAMBDA cat : cat \in DOMAIN m.category_definitions)
        weight(cat) == m.category_weights[cat][population]
        type(cat) == m.category_definitions[cat].type
        weights_of(cats) == Sum([i \in 1..Len(cats) |-> weight(cats[i])])
    IN  IF \E i \in 1..Len(defined) :
              \/ defined[i] \notin DOMAIN m.category_weights
              \/ population \notin DOMAIN m.category_weights[defined[i]]
        THEN [raised |-> TRUE]
        ELSE LET score == weights_of(defined)
                 disease_score ==
                     weights_of(SelectSeq(defined,
                         LAMBDA cat : type(cat) \in {"disease", "disease_interaction"}))
                 demographic_score ==
                     weights_of(SelectSeq(defined, LAMBDA cat : type(cat) = "demographic"))
             IN  [raised |-> FALSE,
                  categories |-> [cat \in SeqToSet(defined) |->
                                     [weight |-> weight(cat), type |-> type(cat),
                                      category_number |-> NoneStr,
                                      category_description |->
                                          m.category_definitions[cat].descr]],
                  score_raw |-> score,
                  disease_score_raw |-> disease_score,
                  demographic_score_raw |-> demographic_score,
                  score |-> Med_apply_norm_factor_coding_adj(m, score),
                  disease_score |-> Med_apply_norm_factor_coding_adj(m, disease_score),
                  demographic_score |-> Med_apply_norm_factor_coding_adj(m, demographic_score)]

\* ---- BaseMedicareModel.score ----

MedIdleCall ==
    [pc |-> "idle", args |-> <<>>, risk_model_population |-> "",
     category_list |-> <<>>, result |-> <<>>]

\* get_categories l.159-162, up to the set of unique categories
Med_dx(m, args) ==
    IF args.diagnosis_codes.value # <<>>
    THEN Med_get_disease_categories(m, args.gender, args.age, args.diagnosis_codes)
    ELSE [raised |-> FALSE, dx_categories |-> <<>>, unique_cats |-> {}]

\* BaseMedicareModel.score on instance m: every call drawn passes age and no
\* dob, so _determine_age returns age. _trim_output deletes type,
\* category_number, category_description and dropped_categories of every
\* entry of category_details when verbose is false.
Med_score(m, args, order) ==
    LET population ==
            IF args.population = "NE"
            THEN Med_get_new_enrollee_population(args.age, args.orec, args.medicaid)
            ELSE args.population
        call == [MedIdleCall EXCEPT !.args = args, !.risk_model_population = population]
        demo_categories == Med_demographic_cats(args.age, args.gender, args.orec, population)
        dx == Med_dx(m, args)
        d == IF args.diagnosis_codes.value # <<>>
             THEN Med_determine_disease_categories(m, dx.dx_categories, order)
             ELSE [keys |-> <<>>, final_cat_dict |-> <<>>]
        category_list == d.keys \o demo_categories
        score_dict == Med_get_weights(m, category_list, population)
        detail(key) ==
            LET value == score_dict.categories[key]
                mapped == key \in DOMAIN d.final_cat_dict
            IN  CASE args.verbose /\ mapped ->
                       [weight |-> value.weight, type |-> value.type,
                        category_number |-> value.category_number,
                        category_description |-> value.category_description,
                        dropped_categories |-> d.final_cat_dict[key].dropped_categories,
                        diagnosis_map |-> d.final_cat_dict[key].diagnosis_map]
                  [] args.verbose /\ ~mapped -> value
                  [] ~args.verbose /\ mapped ->
                       [weight |-> value.weight,
                        diagnosis_map |-> d.final_cat_dict[key].diagnosis_map]
                  [] OTHER -> [weight |-> value.weight]
    IN  IF dx.raised
        THEN [call EXCEPT !.pc = "raised", !.result = [error |-> "KeyError"]]
        ELSE IF score_dict.raised
        THEN [call EXCEPT !.pc = "raised", !.category_list = category_list,
                          !.result = [error |-> "KeyError"]]
        ELSE [call EXCEPT
                 !.pc = "returned",
                 !.category_list = category_list,
                 !.result =
                    [category_list |-> category_list,
                     category_details |->
                        [key \in DOMAIN score_dict.categories |-> detail(key)],
                     score_raw |-> score_dict.score_raw,
                     disease_score_raw |-> score_dict.disease_score_raw,
                     demographic_score_raw |-> score_dict.demographic_score_raw,
                     score |-> score_dict.score,
                     disease_score |-> score_dict.disease_score,
                     demographic_score |-> score_dict.demographic_score]]

(***************************************************************************)
(* Part 4: MedicareBeneficiary and the methods of MedicareModelV24         *)
(***************************************************************************)

\* Python's None where an int or a str may be passed: the values of age and
\* dob carry their type
NoneType == [type |-> "NoneType"]

\* MedicareBeneficiary._determine_age. dob is the date the ISO string
\* denotes, as fromisoformat returns it: year, month, day; the reference
\* date is February 1st of model_year. Tuples compare lexicographically.
Beneficiary_determine_age(age, dob, model_year) ==
    IF dob # NoneType
    THEN [type |-> "int",
          value |-> model_year - dob.year
                    - (IF 2 < dob.month \/ (2 = dob.month /\ 1 < dob.day) THEN 1 ELSE 0)]
    ELSE age

\* MedicareBeneficiary.__init__: _determine_disabled is called with
\* self.age, the age that was passed in; `None < 65` raises TypeError, as
\* does `None >= 65` in _get_new_enrollee_population.
\* _determine_disabled and _get_new_enrollee_population are the code of
\* BaseMedicareModel's methods of the same names.
MedicareBeneficiary(args) ==
    LET risk_model_age == Beneficiary_determine_age(args.age, args.dob, args.model_year)
    IN  IF args.age = NoneType
        THEN [raised |-> "TypeError"]
        ELSE LET d == Med_determine_disabled(args.age.value, args.orec)
             IN  [raised |-> "",
                  gender |-> args.gender, age |-> args.age, dob |-> args.dob,
                  orec |-> args.orec, medicaid |-> args.medicaid,
                  population |-> args.population, model_year |-> args.model_year,
                  risk_model_age |-> risk_model_age,
                  disabled |-> d.disabled = 1, orig_disabled |-> d.orig_disabled = 1,
                  risk_model_population |->
                      IF args.population = "NE"
                      THEN Med_get_new_enrollee_population(risk_model_age.value, args.orec, args.medicaid)
                      ELSE args.population]

\* a count category that names every count
V24_payment_count_uncapped(categories) ==
    IF Len(categories) > 0 THEN "D" \o ToString(Len(categories)) ELSE NoneStr

\* MedicareModelV24._determine_payment_count_category; None is NoneStr
V24_determine_payment_count_category(categories) ==
    LET category_count == Len(categories)
    IN  IF category_count > 9 THEN "D10P"
        ELSE IF category_count > 0 THEN "D" \o ToString(category_count)
        ELSE NoneStr

\* MedicareModelV24._determine_disease_interactions: categories are Category
\* objects, of which the category and the type are read; the new objects
\* come first, then the objects passed in
V24_determine_disease_interactions(categories, beneficiary) ==
    LET disease == SelectSeq(categories, LAMBDA c : c.type = "disease")
        category_list == [i \in 1..Len(disease) |-> disease[i].category]
        any(list) == \E c \in list : In(c, category_list)
        cancer == any({"HCC8", "HCC9", "HCC10", "HCC11", "HCC12"})
        diabetes == any({"HCC17", "HCC18", "HCC19"})
        card_resp_fail == any({"HCC82", "HCC83", "HCC84"})
        chf == In("HCC85", category_list)
        g_copd_cf == any({"HCC110", "HCC111", "HCC112"})
        renal_v24 == any({"HCC134", "HCC135", "HCC136", "HCC137", "HCC138"})
        sepsis == In("HCC2", category_list)
        g_substance_use_disorder_v24 == any({"HCC54", "HCC55", "HCC56"})
        g_pyshiatric_v24 == any({"HCC57", "HCC58", "HCC59", "HCC60"})
        pressure_ulcer == any({"HCC157", "HCC158", "HCC159"})
        hcc47 == In("HCC47", category_list)
        hcc96 == In("HCC96", category_list)
        hcc188 == In("HCC188", category_list)
        hcc114 == In("HCC114", category_list)
        hcc57 == In("HCC57", category_list)
        hcc79 == In("HCC79", category_list)
        interactions_dict ==
            << <<"HCC47_gCancer", cancer /\ hcc47>>,
               <<"DIABETES_CHF", diabetes /\ chf>>,
               <<"CHF_gCopdCF", chf /\ g_copd_cf>>,
               <<"HCC85_gRenal_V24", chf /\ renal_v24>>,
               <<"gCopdCF_CARD_RESP_FAIL", g_copd_cf /\ card_resp_fail>>,
               <<"HCC85_HCC96", chf /\ hcc96>>,
               <<"gSubstanceUseDisorder_gPsych", g_pyshiatric_v24 /\ g_substance_use_disorder_v24>>,
               <<"SEPSIS_PRESSURE_ULCER", sepsis /\ pressure_ulcer>>,
               <<"SEPSIS_ARTIF_OPENINGS", sepsis /\ hcc188>>,
               <<"ART_OPENINGS_PRESS_ULCER", hcc188 /\ pressure_ulcer>>,
               <<"gCopdCF_ASP_SPEC_B_PNEUM", g_copd_cf /\ hcc114>>,
               <<"ASP_SPEC_B_PNEUM_PRES_ULC", hcc114 /\ pressure_ulcer>>,
               <<"SEPSIS_ASP_SPEC_BACT_PNEUM", sepsis /\ hcc114>>,
               <<"SCHIZOPHRENIA_gCopdCF", hcc57 /\ g_copd_cf>>,
               <<"SCHIZOPHRENIA_CHF", hcc57 /\ chf>>,
               <<"SCHIZOPHRENIA_SEIZURES", hcc57 /\ hcc79>>,
               <<"DISABLED_HCC85", beneficiary.disabled /\ chf>>,
               <<"DISABLED_PRESSURE_ULCER", beneficiary.disabled /\ pressure_ulcer>>,
               <<"DISABLED_HCC161", beneficiary.disabled /\ In("HCC161", category_list)>>,
               <<"DISABLED_HCC39", beneficiary.disabled /\ In("HCC39", category_list)>>,
               <<"DISABLED_HCC77", beneficiary.disabled /\ In("HCC77", category_list)>>,
               <<"DISABLED_HCC6", beneficiary.disabled /\ In("HCC6", category_list)>> >>
        fired == SelectSeq(interactions_dict, LAMBDA kv : kv[2])
        category_count == V24_determine_payment_count_category(category_list)
        interaction_list ==
            [i \in 1..Len(fired) |-> fired[i][1]]
            \o (IF category_count # NoneStr THEN <<category_count>> ELSE <<>>)
        interactions ==
            [i \in 1..Len(interaction_list) |->
                [category |-> interaction_list[i],
                 type |-> IF interaction_list[i] = category_count
                          THEN "count" ELSE "disease_interaction"]]
    IN  interactions \o categories

\* MedicareModelV24._determine_demographic_interactions
V24_determine_demographic_interactions(gender, orig_disabled, medicaid) ==
    (IF gender = "F" /\ orig_disabled THEN <<"OriginallyDisabled_Female">>
     ELSE IF gender = "M" /\ orig_disabled THEN <<"OriginallyDisabled_Male">>
     ELSE <<>>)
    \o (IF medicaid THEN <<"LTIMCAID">> ELSE <<>>)

(***************************************************************************)
(* State machines                                                          *)
(***************************************************************************)

\* ---- the Commercial model instance and its calls ----

\* the benefit year the model instance is constructed for
ComModelYears == {2023}

\* CommercialModel.__init__: reference_files are the loaded tables that a
\* call assigns (the other tables are assigned nowhere), category_weights
\* and group_definitions those of model_group_reference_files, a deep copy;
\* csr_adjuster is not an attribute yet (score assigns it before it reads
\* it), 0 stands for that
NewInstance(model_year) ==
    [model_year |-> model_year,
     csr_adjuster |-> 0,
     reference_files |-> [category_weights |-> com_category_weights,
                          group_definitions |-> com_group_definitions],
     category_weights |-> com_category_weights,
     group_definitions |-> com_group_definitions]

Threads == {1, 2}

ComIdle ==
    /\ inst = NewInstance(2023)
    /\ com = IdleCall
    /\ th = [t \in Threads |-> IdleCall]

EditIdle ==
    [pc |-> "idle", version |-> "", beneficiary |-> <<>>, diagnosis_codes |-> <<>>,
     dx_categories |-> <<>>, unique_disease_cats |-> {}]

\* no MedicareModelV24 call was made
V24IdleCall ==
    [pc |-> "idle", args |-> <<>>, beneficiary |-> <<>>, categories |-> <<>>,
     interactions |-> <<>>, category_list |-> <<>>]

MedIdle ==
    /\ minst = [tables |-> "consistent",
                adjusters |-> [coding_intesity_adjuster |-> 1000, normalization_factor |-> 1000]]
    /\ med = MedIdleCall
    /\ edit = EditIdle
    /\ v24 = V24IdleCall

HierIdle == [impl |-> "none", table |-> "closed", pass |-> 0,
             cats |-> <<>>, survivors |-> <<>>, dropped |-> <<>>, prev |-> <<>>]

HierInit ==
    \E t \in HierTables, order \in Orders(HierCats, MaxCats) :
        /\ NoDup(order)
        /\ hier = [HierIdle EXCEPT !.table = t,
                                   !.cats = [i \in 1..Len(order) |-> HierCategory(order[i])]]
        /\ ComIdle
        /\ MedIdle

\* the first pass over the mapped categories
ApplyHierarchies(impl) ==
    /\ hier.pass = 0
    /\ LET r == HierPass(impl, hier.table, hier.cats)
       IN  hier' = [hier EXCEPT !.impl = impl, !.pass = 1,
                                !.survivors = r.survivors, !.dropped = r.dropped]
    /\ UNCHANGED <<comVars, medVars>>

\* the same pass run again on the survivors it returned
ReapplyHierarchies ==
    /\ hier.pass = 1
    /\ LET r == HierPass(hier.impl, hier.table, hier.survivors)
       IN  hier' = [hier EXCEPT !.pass = 2, !.prev = hier.survivors,
                                !.survivors = r.survivors, !.dropped = r.dropped]
    /\ UNCHANGED <<comVars, medVars>>

HierNext ==
    \/ \E impl \in HierImpls : ApplyHierarchies(impl)
    \/ ReapplyHierarchies

SpecHier == HierInit /\ [][HierNext]_vars

\* ---- SpecCom: one call of score on a new instance ----

\* most diagnosis codes passed to one call
MaxCodes == 2

\* diagnosis codes: six of the map and one the map does not have
DxCodes == {"A0101", "A871", "E119", "E11610", "E771", "E8029", "ZZZ"}

CodeLists(S, n) == {codes \in Orders(S, n) : NoDup(codes)}

\* the ages drawn: a Child and an Adult
ComAges == {12, 35}

\* the arguments of a call; csr_indicator is an int, as the tests pass it
ComArgs ==
    [gender : {"M"}, age : ComAges, metal_level : {"Silver"},
     enrollment_days : {150, 365},
     csr_indicator : {[type |-> "int", value |-> "1"]},
     diagnosis_codes : CodeLists(DxCodes, MaxCodes),
     ndc_codes : {None, <<"00002147180">>},
     proc_codes : {None, <<"J1817">>},
     verbose : BOOLEAN]

ComInit ==
    /\ hier = HierIdle
    /\ \E model_year \in ComModelYears : inst = NewInstance(model_year)
    /\ com = IdleCall
    /\ th = [t \in Threads |-> IdleCall]
    /\ MedIdle

\* CommercialModel.score, the whole call
Score ==
    /\ com.pc = "idle"
    /\ \E args \in ComArgs :
         \E order \in CallOrders(args) :
            LET r == RunCall(inst, BeginCall(args, order))
            IN  /\ inst' = r.inst
                /\ com' = r.call
    /\ UNCHANGED <<hier, th, medVars>>

SpecCom == ComInit /\ [][Score]_vars

\* ---- SpecGrp: one call for an Adult with transplant, kidney and infection
\* diagnoses and an immunosuppressant ----

\* the diagnosis codes are some that follow each other in the list below
GrpArgs ==
    LET codes == <<"B3781", "D84821", "Z9483", "T8610", "I120">>
    IN  [gender : {"M"}, age : {35}, metal_level : {"Silver"},
         enrollment_days : {150, 365},
         csr_indicator : {[type |-> "int", value |-> "1"]},
         diagnosis_codes : {<<>>} \cup {SubSeq(codes, i, j) : i, j \in 1..Len(codes)},
         ndc_codes : {None, <<"00004040109">>},
         proc_codes : {None},
         verbose : BOOLEAN]

\* CommercialModel.score, the whole call
GrpScore ==
    /\ com.pc = "idle"
    /\ \E args \in GrpArgs :
         \E order \in CallOrders(args) :
            LET r == RunCall(inst, BeginCall(args, order))
            IN  /\ inst' = r.inst
                /\ com' = r.call
    /\ UNCHANGED <<hier, th, medVars>>

SpecGrp == ComInit /\ [][GrpScore]_vars

\* ---- SpecBen: one call for an Infant or an Adult, of either sex, enrolled
\* for a part of the year or all of it, with each cost-sharing indicator ----

BenArgs ==
    [gender : {"M", "F"}, age : {0, 1, 35}, metal_level : {"Silver"},
     enrollment_days : {0, 20, 50, 80, 110, 150, 170, 300, 365, 400},
     csr_indicator : {[type |-> "int", value |-> ToString(n)] : n \in 1..4}
                     \cup {[type |-> "str", value |-> "2"]},
     diagnosis_codes : {None, <<"A0101">>, <<"Z3800">>, <<"Z3800", "E119">>},
     ndc_codes : {None},
     proc_codes : {None},
     verbose : {FALSE}]

\* CommercialModel.score, the whole call
BenScore ==
    /\ com.pc = "idle"
    /\ \E args \in BenArgs :
         \E order \in CallOrders(args) :
            LET r == RunCall(inst, BeginCall(args, order))
            IN  /\ inst' = r.inst
                /\ com' = r.call
    /\ UNCHANGED <<hier, th, medVars>>

SpecBen == ComInit /\ [][BenScore]_vars

\* ---- SpecConc: two calls of score on one instance, their steps interleaved ----

\* the arguments the two callers pass
ConcArgs ==
    [gender : {"M"}, age : ComAges, metal_level : {"Silver"},
     enrollment_days : {365},
     csr_indicator : {[type |-> "str", value |-> "1"], [type |-> "str", value |-> "2"]},
     diagnosis_codes : {None, <<"E8029">>},
     ndc_codes : {None}, proc_codes : {None}, verbose : {FALSE}]

\* a thread enters score: the beneficiary is built from the arguments
Call(t) ==
    /\ th[t].pc = "idle"
    /\ \E args \in ConcArgs :
         \E order \in CallOrders(args) :
            th' = [th EXCEPT ![t] = BeginCall(args, order)]
    /\ UNCHANGED <<hier, inst, com, medVars>>

\* a thread executes the next step of its call on the shared instance
Advance(t) ==
    /\ th[t].pc # "idle"
    /\ ~CallOver(th[t])
    /\ LET r == Step(inst, th[t])
       IN  /\ inst' = r.inst
           /\ th' = [th EXCEPT ![t] = r.call]
    /\ UNCHANGED <<hier, com, medVars>>

ConcNext == \E t \in Threads : Call(t) \/ Advance(t)

SpecConc == ComInit /\ [][ConcNext]_vars

\* ---- SpecMed: one call of BaseMedicareModel.score ----

\* the diagnosis codes of the Medicare calls: three of the map and one the
\* map does not have
MedCodes == {"Z9483", "E1010", "E1122", "ZZZ"}

\* diagnosis_codes: Union[str, list]
MedDiagnosisCodes ==
    {[type |-> "list", value |-> codes] : codes \in CodeLists(MedCodes, MaxCodes)}
    \cup {[type |-> "str", value |-> <<code>>] : code \in MedCodes}

\* the arguments of a call: ages in two of the ranges, and two that
\* determine_age_band finds in no range
MedArgs ==
    [gender : {"M", "F"}, orec : {"0", "1"}, medicaid : BOOLEAN, age : {-1, 40, 65, 999},
     population : {"CNA", "NE"}, diagnosis_codes : MedDiagnosisCodes,
     verbose : BOOLEAN]

MedInit ==
    /\ hier = HierIdle
    /\ ComIdle
    /\ \E t \in {"consistent", "no_definition", "no_weight"}, adj \in MedAdjusters :
          minst = [tables |-> t, adjusters |-> adj]
    /\ med = MedIdleCall
    /\ edit = EditIdle
    /\ v24 = V24IdleCall

\* the instance the call runs on
MedInstance == NewMedInstance(minst.tables, minst.adjusters)

\* BaseMedicareModel.score, the whole call
MedScore ==
    /\ med.pc = "idle"
    /\ \E args \in MedArgs :
         \E order \in Perms(Med_dx(MedInstance, args).unique_cats) :
            med' = Med_score(MedInstance, args, order)
    /\ UNCHANGED <<hier, comVars, minst, edit, v24>>

SpecMed == MedInit /\ [][MedScore]_vars

\* ---- SpecOrd: one call of BaseMedicareModel.score with up to MaxCats
\* diagnosis codes of the map, so that a whole hierarchy can be mapped ----

OrdArgs ==
    [gender : {"M", "F"}, orec : {"0"}, medicaid : {FALSE}, age : {40, 65},
     population : {"CNA"}, verbose : BOOLEAN,
     diagnosis_codes :
        {[type |-> "list", value |-> codes] :
            codes \in CodeLists(MedCodes \ {"ZZZ"}, MaxCats)}]

\* BaseMedicareModel.score, the whole call
OrdScore ==
    /\ med.pc = "idle"
    /\ \E args \in OrdArgs :
         \E order \in Perms(Med_dx(MedInstance, args).unique_cats) :
            med' = Med_score(MedInstance, args, order)
    /\ UNCHANGED <<hier, comVars, minst, edit, v24>>

SpecOrd == MedInit /\ [][OrdScore]_vars

\* ---- SpecV24: the categories of one MedicareModelV24 call, from the
\* disease categories that survived the hierarchies on ----

\* the Category objects passed to _determine_disease_interactions: no
\* category, or some that follow each other in V24Pool (disease categories
\* of the V24 interaction rules), alone or after the object of a
\* demographic category
V24CategoryLists ==
    LET V24Pool == <<"HCC85", "HCC17", "HCC47", "HCC8", "HCC2", "HCC188", "HCC57",
                     "HCC79", "HCC114", "HCC157", "HCC96">>
        disease(i, j) == [k \in 1..(j - i + 1) |->
                             [category |-> V24Pool[i + k - 1], type |-> "disease"]]
        lists == {<<>>} \cup {disease(i, j) : i, j \in 1..Len(V24Pool)}
    IN  lists \cup {<<[category |-> "M65_69", type |-> "demographic"]>> \o l : l \in lists}

\* the arguments of MedicareBeneficiary: an age, a date of birth (66 and 64
\* years before February 1st 2024), or both
V24Args ==
    LET int(n) == [type |-> "int", value |-> n]
        date(y, m, d) == [type |-> "str", year |-> y, month |-> m, day |-> d]
    IN  {[gender |-> gender, orec |-> orec, medicaid |-> medicaid,
          population |-> population, age |-> ad[1], dob |-> ad[2], model_year |-> 2024] :
            gender \in {"M", "F"}, orec \in {"0", "1", "3"}, medicaid \in BOOLEAN,
            population \in {"CNA", "NE"},
            ad \in {<<int(40), NoneType>>, <<int(64), NoneType>>, <<int(65), NoneType>>,
                    <<int(67), NoneType>>,
                    <<NoneType, date(1958, 1, 15)>>, <<NoneType, date(1959, 3, 1)>>,
                    <<int(40), date(1958, 1, 15)>>, <<int(67), date(1959, 3, 1)>>}}

\* the beneficiary is constructed; the band is found with the risk model
\* age; the demographic interactions and the disease interactions are
\* determined; category_list holds the demographic categories, then the
\* categories _determine_disease_interactions returned
V24Score ==
    /\ v24.pc = "idle"
    /\ \E args \in V24Args, categories \in V24CategoryLists :
         LET beneficiary == MedicareBeneficiary(args)
         IN  IF beneficiary.raised # ""
             THEN v24' = [V24IdleCall EXCEPT !.pc = "raised", !.args = args,
                                            !.categories = categories]
             ELSE LET band == Med_determine_demographic_cats(
                                  beneficiary.risk_model_age.value, beneficiary.gender,
                                  beneficiary.risk_model_population)
                      demo == V24_determine_demographic_interactions(
                                  beneficiary.gender, beneficiary.orig_disabled,
                                  beneficiary.medicaid)
                      out == V24_determine_disease_interactions(categories, beneficiary)
                  IN  v24' = [pc |-> "returned", args |-> args,
                              beneficiary |-> beneficiary, categories |-> categories,
                              interactions |-> out,
                              category_list |->
                                 <<band>> \o demo \o [i \in 1..Len(out) |-> out[i].category]]
    /\ UNCHANGED <<hier, comVars, minst, med, edit>>

SpecV24 == ComInit /\ [][V24Score]_vars

\* ---- SpecInt: one call, of CommercialModelV07 or of MedicareModelV24 ----

SpecInt ==
    ComInit /\ [][(v24.pc = "idle" /\ Score) \/ (com.pc = "idle" /\ V24Score)]_vars

\* ---- SpecAny: one call, of CommercialModelV07 or of BaseMedicareModel ----

SpecAny ==
    ComInit /\ [][(med.pc = "idle" /\ Score) \/ (com.pc = "idle" /\ MedScore)]_vars

\* ---- SpecEdit: the diagnosis codes of one beneficiary are mapped ----

\* the codes drawn for a model version: of the V24 map D66, J430 and F3481
\* are in the code list of an edit, E119 is in none, ZZZ is not in the map
EditCodes(version) ==
    IF version = "v24" THEN {"D66", "J430", "F3481", "E119", "ZZZ"} ELSE DxCodes

\* _get_dx_categories and the set of disease categories of score l.188-195,
\* for ages on both sides of the bounds the edits test (6, 18, 21)
MapCodes ==
    /\ edit.pc = "idle"
    /\ \E version \in {"v07", "v24"}, gender \in {"M", "F"}, age \in {5, 17, 18, 25} :
         \E diagnosis_codes \in CodeLists(EditCodes(version), MaxCodes) :
            LET beneficiary == [gender |-> gender, age |-> age]
                dx_categories == get_dx_categories(version, diagnosis_codes, beneficiary)
            IN  edit' = [pc |-> "mapped", version |-> version,
                         beneficiary |-> beneficiary,
                         diagnosis_codes |-> diagnosis_codes,
                         dx_categories |-> dx_categories,
                         unique_disease_cats |-> UniqueDiseaseCats(dx_categories)]
    /\ UNCHANGED <<hier, comVars, minst, med, v24>>

SpecEdit == ComInit /\ [][MapCodes]_vars

\* ---- SpecSeq: calls of score on one instance, one after the other ----

\* the arguments of the calls: both age groups, metal levels and CSR
\* indicators
SeqArgs ==
    [gender : {"M"}, age : ComAges, metal_level : {"Silver", "Bronze"},
     enrollment_days : {365},
     csr_indicator : {[type |-> "str", value |-> "1"], [type |-> "str", value |-> "2"]},
     diagnosis_codes : {None, <<"E8029">>},
     ndc_codes : {None}, proc_codes : {None}, verbose : {FALSE}]

\* caller t calls score when no call is running and keeps what it returns
SeqCall(t) ==
    /\ \A u \in Threads : th[u].pc = "idle" \/ CallOver(th[u])
    /\ \E args \in SeqArgs :
         \E order \in CallOrders(args) :
            LET r == RunCall(inst, BeginCall(args, order))
            IN  /\ inst' = r.inst
                /\ th' = [th EXCEPT ![t] = r.call]
    /\ UNCHANGED <<hier, com, medVars>>

SpecSeq == ComInit /\ [][\E t \in Threads : SeqCall(t)]_vars

\* ---- SpecRef: calls of score of the CommercialModel of model.py ----

\* CommercialModel.score of model.py on its base class: the weights are pared
\* into reference_files itself; _age_sex_edits returns ["NA"] for every code,
\* so the demographic category is the only category; the interactions
\* placeholder returns the category list inside a list, and the sum of the
\* coefficients raises AttributeError
ModelPyScore ==
    /\ com.pc = "idle" \/ CallOver(com)
    /\ \E a \in SeqArgs, gender \in {"M", "F"}, enrollment_days \in {150, 365}, verbose \in BOOLEAN :
         LET args == [a EXCEPT !.gender = gender, !.enrollment_days = enrollment_days,
                               !.verbose = verbose]
             beneficiary == CommercialBeneficiary(args)
             pared == PareWeights(inst.reference_files.category_weights,
                                  beneficiary.risk_model_age_group)
             rf == [inst EXCEPT !.csr_adjuster =
                                   get_csr_adjuster(inst.model_year, args.csr_indicator),
                                !.reference_files.category_weights = pared,
                                !.category_weights = pared,
                                !.group_definitions = inst.reference_files.group_definitions]
             demo == V07_determine_age_gender_category(beneficiary.age, beneficiary.gender)
         IN  /\ inst' = rf
             /\ com' = [IdleCall EXCEPT
                           !.pc = "raised", !.args = args, !.beneficiary = beneficiary,
                           !.result =
                              [error |->
                                 IF CategoryOK(rf, beneficiary.risk_model_population, demo)
                                 THEN "AttributeError" ELSE "KeyError"]]
    /\ UNCHANGED <<hier, th, medVars>>

SpecRef == ComInit /\ [][ModelPyScore]_vars

(***************************************************************************)
(* Claims                                                                  *)
(***************************************************************************)

Lists(hd, a, b) == a \in DOMAIN hd /\ In(b, hd[a].remove_code)

\* names[i] is suppressed by a category visited before it that was itself
\* not suppressed when it was visited
RECURSIVE SuppressedByEarlier(_, _, _)
SuppressedByEarlier(hd, names, i) ==
    \E j \in 1..(i - 1) :
        /\ Lists(hd, names[j], names[i])
        /\ ~SuppressedByEarlier(hd, names, j)

\* C2: in the pass of CommercialModel and of MedicareModelV28, a category
\* that an earlier-visited category has already suppressed suppresses nothing
\* and records no dropped categories; with A listing B, B listing C, A not
\* listing C, visited in the order A, B, C, the survivors are A and C.
C2_SuppressedCategoryDoesNotSuppress ==
    (hier.pass = 1 /\ hier.impl \in {"commercial", "v28"}) =>
        LET hd == hierarchy_definitions(hier.table)
            names == Names(hier.cats)
            objs == hier.survivors \o hier.dropped
        IN  /\ \A i \in 1..Len(names) :
                 SuppressedByEarlier(hd, names, i) =>
                     \A k \in 1..Len(objs) :
                         objs[k].category = names[i] => objs[k].dropped_categories = None
            /\ (/\ Len(names) = 3
                /\ Lists(hd, names[1], names[2])
                /\ Lists(hd, names[2], names[3])
                /\ ~Lists(hd, names[1], names[3]))
               => Names(hier.survivors) = <<names[1], names[3]>>

\* C3: hierarchy resolution is idempotent in every implementation: the pass
\* applied again to the survivors it returned removes nothing and returns the
\* same survivors.
C3_HierarchyIdempotent ==
    hier.pass = 2 => Names(hier.survivors) = Names(hier.prev)

\* "mapped from the input codes": the categories the call's codes map to
\* after the age/sex edits (unique_disease_cats)
ComMapped == UniqueDiseaseCats(MapperCategories(com.args, com.beneficiary))

\* the group table of the call's age group
ComGroupsOf(age_group) == PareGroups(com_group_definitions, age_group)

\* the premise of C1 for categories a and b of a returned verbose call
C1_Premise(mapped, a, b) ==
    /\ a \in mapped
    /\ b \in mapped
    /\ Lists(com_hierarchy_definitions, a, b)
    /\ \A x \in mapped : ~Lists(com_hierarchy_definitions, x, a)
    /\ a \notin DOMAIN ComGroupsOf(com.beneficiary.risk_model_age_group)

C1_Conclusion(a, b) ==
    /\ In(a, com.result.category_list)
    /\ ~In(b, com.result.category_list)
    /\ In(b, com.result.dropped_category_list)
    /\ In(b, com.result.category_details[a].dropped_categories)

C1_Call ==
    /\ com.pc = "returned"
    /\ com.args.verbose
    /\ com.beneficiary.risk_model_age_group \in {"Adult", "Child"}

\* C1 as stated: in a verbose call for an Adult or Child, when A and B are
\* both mapped, A's hierarchy entry lists B, no mapped category lists A and A
\* is in no group, then category_list has A and not B, dropped_category_list
\* has B and category_details[A].dropped_categories has B.
C1_HierarchyInResult_AsStated ==
    C1_Call =>
        LET mapped == ComMapped
        IN  \A a, b \in mapped : C1_Premise(mapped, a, b) => C1_Conclusion(a, b)

\* C1 (amended): the same, when in addition, for a Child beneficiary, neither
\* A nor B is an RX category (a name containing "RX"): score leaves those out
\* of a Child's categories before the hierarchies are applied.
C1_HierarchyInResult ==
    C1_Call =>
        LET mapped == ComMapped
        IN  \A a, b \in mapped :
                (/\ C1_Premise(mapped, a, b)
                 /\ com.beneficiary.risk_model_age_group = "Child"
                        => (~ContainsRX(a) /\ ~ContainsRX(b)))
                => C1_Conclusion(a, b)

\* a Child's verbose call in which a mapped category suppresses another
C1_Witness ==
    /\ C1_Call
    /\ com.beneficiary.risk_model_age_group = "Child"
    /\ \E a, b \in ComMapped :
          /\ C1_Premise(ComMapped, a, b)
          /\ ~ContainsRX(a) /\ ~ContainsRX(b)
          /\ C1_Conclusion(a, b)

\* the members of group g in the list of names, in list order
PresentMembers(gd, names, g) ==
    SelectSeq(names, LAMBDA c : c \in DOMAIN gd /\ gd[c] = g)

\* C4: after _apply_groups, every group with at least one member in the input
\* list is in the result exactly once, no member of a group is in the result,
\* the group category's dropped_categories and trigger codes are the list of
\* its members that were present, and the categories that are members of no
\* group are returned unchanged.
C4_GroupsReplaceMembers ==
    com.pc = "returned" =>
        LET gd == ComGroupsOf(com.beneficiary.risk_model_age_group)
            groups == {gd[c] : c \in DOMAIN gd}
            input == com.groups_in
            output == com.categories
        IN  /\ \A g \in groups :
                 LET present == PresentMembers(gd, Names(input), g)
                 IN  present # <<>> =>
                       /\ Cardinality({i \in 1..Len(output) : output[i].category = g}) = 1
                       /\ \A i \in 1..Len(output) :
                             output[i].category = g =>
                                /\ output[i].dropped_categories = present
                                /\ output[i].mapper_codes = present
            /\ \A i \in 1..Len(output) : output[i].category \notin DOMAIN gd
            /\ SelectSeq(input, LAMBDA c : c.category \notin DOMAIN gd)
               = SelectSeq(output, LAMBDA c : c.category \notin groups)

\* a call in which one group absorbed two categories
C4_Witness ==
    /\ com.pc = "returned"
    /\ \E i \in 1..Len(com.categories) :
          /\ com.categories[i].type = "group"
          /\ Len(com.categories[i].dropped_categories) = 2
          /\ Len(com.dropped_group) = 2

\* the outcome of the call with the same arguments and the same enumeration
\* order, run alone on a new instance
SoloCall(call) ==
    RunCall(NewInstance(inst.model_year), BeginCall(call.args, call.order)).call

\* C10: each of two score() calls running concurrently on one CommercialModel
\* instance ends as it would have ended run alone: it returns exactly the
\* result of the solo call (and raises only if the solo call raises).
C10_ConcurrentCallsIsolated ==
    \A t \in Threads :
        CallOver(th[t]) =>
            /\ th[t].pc = SoloCall(th[t]).pc
            /\ th[t].result = SoloCall(th[t]).result

\* ---- Medicare scores ----

\* a raw score in thousandths times the coding-intensity adjuster, rounded to
\* 4 decimals, then divided by the normalization factor and rounded to 4
\* decimals (in ten-thousandths)
C5_RoundedTwice(raw) ==
    LET adjusted == RoundHalfEven(raw * minst.adjusters.coding_intesity_adjuster, 100)
    IN  RoundHalfEven(adjusted * 1000, minst.adjusters.normalization_factor)

\* the same product and quotient rounded to 4 decimals once
C5_RoundedOnce(raw) ==
    RoundHalfEven(raw * minst.adjusters.coding_intesity_adjuster * 10,
                  minst.adjusters.normalization_factor)

\* C5: in every returned Medicare call the total, the disease and the
\* demographic score are each the raw score multiplied by the
\* coding-intensity adjuster and rounded to 4 decimals, then divided by the
\* normalization factor and rounded to 4 decimals.
C5_RoundAfterEachStep ==
    med.pc = "returned" =>
        /\ med.result.score = C5_RoundedTwice(med.result.score_raw)
        /\ med.result.disease_score = C5_RoundedTwice(med.result.disease_score_raw)
        /\ med.result.demographic_score = C5_RoundedTwice(med.result.demographic_score_raw)

\* a returned call whose score differs from the score rounded once
C5_Witness ==
    /\ med.pc = "returned"
    /\ med.result.score = C5_RoundedTwice(med.result.score_raw)
    /\ med.result.score # C5_RoundedOnce(med.result.score_raw)

C6_HasWeight(category) ==
    /\ category \in DOMAIN MedInstance.category_weights
    /\ med.risk_model_population \in DOMAIN MedInstance.category_weights[category]

\* C6: a call whose category list holds a category without a weight for the
\* risk-model population raises, and a returned call has scored every
\* category of category_list with its weight.
C6_MissingWeightAborts ==
    med.pc \in {"returned", "raised"} =>
        /\ (\E i \in 1..Len(med.category_list) : ~C6_HasWeight(med.category_list[i]))
              => med.pc = "raised"
        /\ med.pc = "returned" =>
              \A i \in 1..Len(med.result.category_list) :
                 LET category == med.result.category_list[i]
                 IN  /\ category \in DOMAIN med.result.category_details
                     /\ med.result.category_details[category].weight =
                           MedInstance.category_weights[category][med.risk_model_population]

\* the age is in one of the age ranges; a range "lo_GT" ends below 999
C7_InSomeRange(age, age_ranges) ==
    \E i \in 1..Len(age_ranges) :
        LET age_band == age_ranges[i]
            lower == ToInt(age_band[1])
        IN  /\ lower <= age
            /\ \/ Len(age_band) = 1 /\ age = lower
               \/ Len(age_band) = 2 /\ age_band[2] = "GT" /\ age < 999
               \/ Len(age_band) = 2 /\ age_band[2] # "GT" /\ age <= ToInt(age_band[2])

\* C7: a call with an age that is in none of the demographic age ranges of
\* its population raises an error.
C7_UnmatchedAgeFails ==
    med.pc \in {"returned", "raised"} =>
        (~C7_InSomeRange(med.args.age, Med_demo_category_ranges(med.risk_model_population))
            => med.pc = "raised")

\* C8: a call whose diagnosis codes are all without an entry in the
\* code-to-category map returns, and the category list of a returned call
\* holds no disease category but those the mapped codes map to.
C8_UnmappedCodeContributesNothing ==
    med.pc \in {"returned", "raised"} =>
        LET codes == SeqToSet(med.args.diagnosis_codes.value)
            map == med_diag_to_category_map
            mapped == codes \cap DOMAIN map
            disease == UNION {SeqToSet(map[c]) : c \in DOMAIN map}
        IN  /\ (codes # {} /\ mapped = {}) => med.pc = "returned"
            /\ med.pc = "returned" =>
                  \A i \in 1..Len(med.result.category_list) :
                     med.result.category_list[i] \in disease =>
                        \E c \in mapped : In(med.result.category_list[i], map[c])

\* ---- age/sex edits ----

\* what the edits of the model version return for a code, in their order
C9_Edits(version, beneficiary, code) ==
    IF version = "v24"
    THEN << V24_age_sex_edit_1(beneficiary.gender, code),
            V24_age_sex_edit_2(beneficiary.age, code),
            V24_age_sex_edit_3(beneficiary.age, code) >>
    ELSE << V07_age_sex_edit_12(beneficiary.age, code) >>

\* the categories a code is to carry: those of the first edit that applies,
\* the mapped categories when none applies
C9_Expected(version, beneficiary, code) ==
    LET applied == SelectSeq(C9_Edits(version, beneficiary, code), LAMBDA e : e # None)
    IN  IF applied # <<>> THEN applied[1]
        ELSE CodeCategory(version, "diag", code).categories

C11_CallsIndependent ==
    \A t \in Threads :
        CallOver(th[t]) =>
            th[t] = RunCall(NewInstance(inst.model_year),
                            BeginCall(th[t].args, th[t].order)).call

\* caller 1 made its call after caller 2 had scored another age group,
\* metal level and CSR indicator on the instance
C11_Witness ==
    /\ th[1].pc = "returned" /\ th[2].pc = "returned"
    /\ th[1].beneficiary.risk_model_age_group # th[2].beneficiary.risk_model_age_group
    /\ th[1].args.metal_level # th[2].args.metal_level
    /\ th[1].result.csr_adjuster # th[2].result.csr_adjuster
    /\ inst.csr_adjuster = th[1].result.csr_adjuster
    /\ inst.category_weights =
          PareWeights(com_category_weights, th[1].beneficiary.risk_model_age_group)

\* C12: the loaded reference tables of the instance are what was loaded at
\* construction, after any number of calls.
C12_ReferenceTablesUnchanged ==
    inst.reference_files = NewInstance(inst.model_year).reference_files

\* C13: a finished Medicare call ends with the same surviving categories,
\* the same details (weight, dropped categories, diagnosis map) per category
\* and the same scores for every order in which the set of mapped
\* categories can be enumerated.
C13_EnumerationOrderIrrelevant ==
    med.pc = "returned" =>
        \A order \in Perms(Med_dx(MedInstance, med.args).unique_cats) :
            LET other == Med_score(MedInstance, med.args, order)
            IN  /\ other.pc = "returned"
                /\ SeqToSet(other.category_list) = SeqToSet(med.category_list)
                /\ other.result.category_details = med.result.category_details
                /\ other.result.score_raw = med.result.score_raw
                /\ other.result.score = med.result.score
                /\ other.result.disease_score = med.result.disease_score

\* the names of the disease categories a V24 call was given
C14_DiseaseNames ==
    LET disease == SelectSeq(v24.categories, LAMBDA c : c.type = "disease")
    IN  [i \in 1..Len(disease) |-> disease[i].category]

\* the place of a payment count category among none, D1, ..., D9, D10P; any
\* other name is placed after them
C14_Rank(category) ==
    LET name(r) == IF r = 0 THEN NoneStr
                   ELSE IF r = 10 THEN "D10P" ELSE "D" \o ToString(r)
    IN  IF \E r \in 0..10 : category = name(r)
        THEN CHOOSE r \in 0..10 : category = name(r)
        ELSE 11

\* C14: with n disease categories the call adds no payment count category
\* for n = 0, D{n} for n from 1 to 9 and D10P from 10 on, and one more
\* category never gives a lower count category.
C14_PaymentCountCapped ==
    v24.pc = "returned" =>
        LET n == Len(C14_DiseaseNames)
            counts == {v24.interactions[i].category : i \in
                         {j \in 1..Len(v24.interactions) : v24.interactions[j].type = "count"}}
        IN  /\ counts = (IF n = 0 THEN {}
                         ELSE IF n <= 9 THEN {"D" \o ToString(n)} ELSE {"D10P"})
            /\ C14_Rank(V24_determine_payment_count_category(C14_DiseaseNames))
                 = (IF n > 10 THEN 10 ELSE n)
            /\ C14_Rank(V24_determine_payment_count_category(Append(C14_DiseaseNames, "HCC6")))
                 >= C14_Rank(V24_determine_payment_count_category(C14_DiseaseNames))

\* eleven disease categories were counted
C14_Witness ==
    /\ v24.pc = "returned"
    /\ Len(C14_DiseaseNames) = 11
    /\ In("D10P", v24.category_list)

\* the categories a finished Commercial call handed to its interactions
\* step: the demographic and the mapped categories (no RX category for a
\* Child) that the hierarchies did not drop
C15_V07Survivors ==
    LET unique == determine_demographic_categories(com.beneficiary) \o com.order
        kept == IF com.beneficiary.risk_model_age_group = "Child"
                THEN SelectSeq(unique, LAMBDA c : ~ContainsRX(c))
                ELSE unique
    IN  SeqToSet(kept) \ SeqToSet(Names(com.dropped_hierarchy))

\* C15: the interactions step of V07 and of V24 returns every category it
\* was given; what it adds has names different from each other and from
\* the names given; a rule adds its category exactly when its condition
\* holds (the diabetes RXC rule of V07; the diabetes/CHF rule and the
\* disabled/CHF rule of V24).
C15_InteractionsOnlyAdd ==
    /\ com.pc = "returned" =>
         LET out == Names(com.groups_in)
         IN  /\ C15_V07Survivors \subseteq SeqToSet(out)
             /\ NoDup(out)
             /\ com.beneficiary.risk_model_age_group = "Adult" =>
                  (In("RXC_06_x_HCC018_019_020_021", out)
                     <=> /\ "RXC_06" \in C15_V07Survivors
                         /\ C15_V07Survivors \cap {"HHS_HCC018", "HHS_HCC019",
                                                   "HHS_HCC020", "HHS_HCC021"} # {})
    /\ v24.pc = "returned" =>
         LET given == v24.categories
             out == v24.interactions
             added == SelectSeq(out, LAMBDA c : ~In(c, given))
             disease == {given[i].category : i \in
                           {j \in 1..Len(given) : given[j].type = "disease"}}
         IN  /\ \A i \in 1..Len(given) : In(given[i], out)
             /\ Len(out) = Len(given) + Len(added)
             /\ NoDup(Names(out))
             /\ In("DIABETES_CHF", Names(added))
                  <=> "HCC85" \in disease /\ disease \cap {"HCC17", "HCC18", "HCC19"} # {}
             /\ In("DISABLED_HCC85", Names(added))
                  <=> v24.beneficiary.disabled /\ "HCC85" \in disease

\* an Adult call in which the diabetes RXC rule and a severity count fired
C15_Witness ==
    /\ com.pc = "returned"
    /\ In("RXC_06_x_HCC018_019_020_021", Names(com.groups_in))
    /\ In("SEVERE_HCC_COUNT2", Names(com.groups_in))
    /\ C15_V07Survivors \subseteq SeqToSet(Names(com.groups_in))
    /\ Cardinality(C15_V07Survivors) = 4

\* C16: the severity count category of a finished call names the number of
\* disease and group categories of the returned category list, in which a
\* group stands once for all its members.
C16_GroupMembersCountOnce ==
    com.pc = "returned" =>
        LET counted == {c \in SeqToSet(com.categories) : c.type \in {"disease", "group"}}
        IN  \A k \in 0..9 :
                In("SEVERE_HCC_COUNT" \o ToString(k), Names(com.categories))
                    => k = Cardinality(counted)

\* C17: in an Adult call the kidney RXC rule adds its category exactly when
\* RXC_04 and one of HHS_HCC183, 184, 187, 188 survived the hierarchies,
\* also when the groups step afterwards replaces that HCC by its group:
\* a surviving HHS_HCC187 is returned as G16.
C17_RxcRuleSeesGroupMembers ==
    com.pc = "returned" /\ com.beneficiary.risk_model_age_group = "Adult" =>
        LET final == Names(com.categories)
        IN  /\ In("RXC_04_x_HCC184_183_187_188", final)
                 <=> /\ "RXC_04" \in C15_V07Survivors
                     /\ C15_V07Survivors \cap {"HHS_HCC183", "HHS_HCC184",
                                               "HHS_HCC187", "HHS_HCC188"} # {}
            /\ "HHS_HCC187" \in C15_V07Survivors
                 => In("G16", final) /\ ~In("HHS_HCC187", final)

\* RXC_04 and HHS_HCC187 were mapped; the rule's category and G16 are in the
\* result, HHS_HCC187 is not
C17_Witness ==
    /\ com.pc = "returned"
    /\ com.args.diagnosis_codes = <<"I120">>
    /\ com.args.ndc_codes = <<"00004040109">>
    /\ In("RXC_04_x_HCC184_183_187_188", com.result.category_list)
    /\ In("G16", com.result.category_list)
    /\ ~In("HHS_HCC187", com.result.category_list)

\* HCC223 was mapped, is not returned, and no category lists it among the
\* categories it dropped: the heart patch removed it
C18_RemovedByPatch ==
    /\ In("HCC223", Names(hier.cats))
    /\ ~In("HCC223", Names(hier.survivors))
    /\ \A c \in SeqToSet(hier.survivors) \cup SeqToSet(hier.dropped) :
          ~In("HCC223", c.dropped_categories)

\* C18: the V28 pass removes HCC223 by the heart patch exactly when HCC223
\* was mapped and none of HCC221, 222, 224, 225, 226 was: HCC223 alone
\* leaves no disease category, HCC223 with HCC224 (and no HCC221) keeps
\* HCC223.
C18_HeartPatchRemovesLoneHCC223 ==
    hier.impl = "v28" /\ hier.pass = 1 =>
        LET mapped == SeqToSet(Names(hier.cats))
        IN  /\ C18_RemovedByPatch
                 <=> /\ "HCC223" \in mapped
                     /\ mapped \cap {"HCC221", "HCC222", "HCC224", "HCC225", "HCC226"} = {}
            /\ mapped = {"HCC223"} => hier.survivors = <<>>
            /\ {"HCC223", "HCC224"} \subseteq mapped /\ "HCC221" \notin mapped
                 => In("HCC223", Names(hier.survivors))

\* HCC223 was mapped with a category outside the heart hierarchy and
\* removed by the patch
C18_Witness ==
    /\ hier.impl = "v28" /\ hier.pass = 1
    /\ SeqToSet(Names(hier.cats)) = {"HCC223", "HCC35"}
    /\ Names(hier.survivors) = <<"HCC35">>
    /\ C18_RemovedByPatch

\* C19: the construction of a Medicare beneficiary from an age, a date of
\* birth or both succeeds, the risk model age is an int, and the disabled
\* and originally-disabled flags are the ones the risk model age gives.
C19_ResolvedAgeUsedEverywhere ==
    v24.pc # "idle" =>
        /\ v24.pc = "returned"
        /\ v24.beneficiary.risk_model_age.type = "int"
        /\ LET d == Med_determine_disabled(v24.beneficiary.risk_model_age.value,
                                           v24.beneficiary.orec)
           IN  /\ v24.beneficiary.disabled = (d.disabled = 1)
               /\ v24.beneficiary.orig_disabled = (d.orig_disabled = 1)

C21_NewEnrolleePopulation ==
    v24.pc = "returned" /\ v24.args.population = "NE" =>
        LET b == v24.beneficiary
            age == b.risk_model_age.value
            expected ==
                "NE_" \o (IF b.medicaid THEN "MCAID" ELSE "NMCAID") \o "_"
                \o (IF age >= 65 /\ b.orec = "1" THEN "ORIGDIS" ELSE "NORIGDIS")
        IN  /\ b.risk_model_population = expected
            /\ v24.category_list[1] =
                 "NE" \o b.gender \o (IF age \in 65..69 THEN ToString(age)
                                      ELSE IF age \in 60..64 THEN "60_64"
                                      ELSE "35_44")

\* a woman of 67 with Medicaid and orec "1", passed as "NE"
C21_Witness ==
    /\ v24.pc = "returned"
    /\ v24.args.population = "NE" /\ v24.args.gender = "F"
    /\ v24.args.age = [type |-> "int", value |-> 67] /\ v24.args.dob = NoneType
    /\ v24.beneficiary.risk_model_population = "NE_MCAID_ORIGDIS"
    /\ v24.category_list[1] = "NEF67"

\* ---- C22 ----

\* the scores and the two category lists of a result
C22_Outcome(result) ==
    [f \in {"score_raw", "disease_score_raw", "demographic_score_raw", "score",
            "disease_score", "demographic_score", "category_list"}
           \cap DOMAIN result |-> result[f]]

\* the fields that only a verbose entry of category_details holds
C22_VerboseFields == {"type", "category_number", "category_description", "dropped_categories"}

\* the entries of the verbose details d, cut down to the other fields, are
\* the entries of the details e, and e holds none of the verbose fields
C22_SameButFields(d, e) ==
    /\ DOMAIN d = DOMAIN e
    /\ \A n \in DOMAIN d :
          /\ DOMAIN e[n] = DOMAIN d[n] \ C22_VerboseFields
          /\ \A f \in DOMAIN e[n] : e[n][f] = d[n][f]

\* the call of CommercialModel.score that differs from com in verbose only
C22_ComOther ==
    RunCall(NewInstance(inst.model_year),
            BeginCall([com.args EXCEPT !.verbose = ~@], com.order)).call

\* C22: a call of score and the same call with the verbose flag flipped end
\* alike, with equal scores, category_list and dropped_category_list; the
\* entries of category_details differ only in that the verbose ones hold
\* type, number, description and dropped categories besides the coefficient
\* and the trigger code map
C22_VerboseChangesFieldsOnly ==
    /\ com.pc \in {"returned", "raised"} =>
          LET other == C22_ComOther
              v == IF com.args.verbose THEN com.result ELSE other.result
              t == IF com.args.verbose THEN other.result ELSE com.result
          IN  /\ other.pc = com.pc
              /\ com.pc = "returned" =>
                    /\ C22_Outcome(other.result) = C22_Outcome(com.result)
                    /\ other.result.dropped_category_list = com.result.dropped_category_list
                    /\ C22_SameButFields(v.category_details, t.category_details)
                    /\ \A n \in DOMAIN v.category_details :
                          /\ DOMAIN t.category_details[n] = {"coefficient", "trigger_code_map"}
                          /\ DOMAIN v.category_details[n] =
                                {"coefficient", "trigger_code_map"} \cup C22_VerboseFields
    /\ med.pc \in {"returned", "raised"} =>
          \A order \in Perms(Med_dx(MedInstance, med.args).unique_cats) :
             Med_score(MedInstance, med.args, order) = med =>
                LET other == Med_score(MedInstance,
                                       [med.args EXCEPT !.verbose = ~@], order)
                    v == IF med.args.verbose THEN med.result ELSE other.result
                    t == IF med.args.verbose THEN other.result ELSE med.result
                IN  /\ other.pc = med.pc
                    /\ med.pc = "returned" =>
                          /\ C22_Outcome(other.result) = C22_Outcome(med.result)
                          /\ C22_SameButFields(v.category_details, t.category_details)
                          /\ \A n \in DOMAIN v.category_details :
                                /\ DOMAIN t.category_details[n] \subseteq
                                      {"weight", "diagnosis_map"}
                                /\ {"type", "category_number", "category_description"}
                                      \subseteq DOMAIN v.category_details[n]

\* a non-verbose Commercial result with a dropped category whose verbose
\* twin lists the dropped category in an entry
C22_Witness ==
    /\ com.pc = "returned"
    /\ ~com.args.verbose
    /\ com.result.dropped_category_list # <<>>
    /\ \E n \in DOMAIN C22_ComOther.result.category_details :
          C22_ComOther.result.category_details[n].dropped_categories # None

\* ---- C23 ----

\* the birth (maturity) categories of _determine_infant_maturity_status
C23_BirthCategories ==
    {"HHS_HCC242", "HHS_HCC243", "HHS_HCC244", "HHS_HCC245", "HHS_HCC246",
     "HHS_HCC247", "HHS_HCC248", "HHS_HCC249"}

\* C23: a call for a male infant of age 0 to whom none of the birth
\* categories is mapped returns a result that holds Age1_Male and not
\* Age0_Male and that reports the risk model age 1.
C23_InfantScoredAsAge1 ==
    (/\ com.pc \in {"returned", "raised"}
     /\ com.args.age = 0
     /\ com.args.gender = "M"
     /\ SeqToSet(com.order) \cap C23_BirthCategories = {}) =>
        /\ com.pc = "returned"
        /\ In("Age1_Male", com.result.category_list)
        /\ ~In("Age0_Male", com.result.category_list)
        /\ com.result.risk_model_age = 1

\* ---- C24 ----

\* the adjuster of the CMS table, in hundredths, for the integer indicator n
C24_Adjuster(model_year, n) ==
    IF model_year \in 2019..2025 /\ n \in {"1", "2", "3", "4"}
    THEN CASE n = "1" -> 100 [] n = "2" -> 107 [] n = "3" -> 112 [] n = "4" -> 115
    ELSE 100

\* C24: a call that passes the integer csr_indicator 1, 2, 3 or 4 to a model
\* of a year from 2019 to 2025 reports the csr_adjuster 1.00, 1.07, 1.12 or
\* 1.15, and each of its three adjusted scores is the raw score times that
\* adjuster, rounded to three decimals.
C24_CsrAdjusterOfIntIndicator ==
    com.pc = "returned" /\ com.args.csr_indicator.type = "int" =>
        LET adjuster == C24_Adjuster(inst.model_year, com.args.csr_indicator.value)
            r == com.result
        IN  /\ r.csr_adjuster = adjuster
            /\ r.score = RoundHalfEven(r.score_raw * adjuster, 100)
            /\ r.disease_score = RoundHalfEven(r.disease_score_raw * adjuster, 100)
            /\ r.demographic_score = RoundHalfEven(r.demographic_score_raw * adjuster, 100)

\* ---- C25 ----

\* C25: after a pass of BaseMedicareModel._apply_hierarchies, whatever the
\* set of categories and the order in which it is enumerated, no surviving
\* category is a declared suppression target of another surviving category.
C25_NoSurvivorIsTargetOfSurvivor ==
    (hier.pass = 1 /\ hier.impl = "base") =>
        LET hd == hierarchy_definitions(hier.table)
            survivors == SeqToSet(Names(hier.survivors))
        IN  \A a \in survivors : \A b \in survivors : ~Lists(hd, a, b)

\* ---- C26 ----

\* the survivors of the generic pass over the categories the V28 pass was
\* given
C26_GenericSurvivors ==
    Names(Commercial_apply_hierarchies(hierarchy_definitions(hier.table),
                                       hier.cats).final_categories)

\* C26 as stated: the V28 pass returns the survivors of the generic pass,
\* less HCC223 when HCC223 is among them and none of HCC221, HCC222, HCC224,
\* HCC225, HCC226 is: the patch is a step after the generic pass, decided
\* from the siblings that survived it.
C26_PatchDecidedOnSurvivors ==
    (hier.pass = 1 /\ hier.impl = "v28") =>
        LET generic == C26_GenericSurvivors
            patched == /\ In("HCC223", generic)
                       /\ ~\E c \in {"HCC221", "HCC222", "HCC224", "HCC225", "HCC226"} :
                              In(c, generic)
        IN  Names(hier.survivors) =
                IF patched THEN SelectSeq(generic, LAMBDA c : c # "HCC223") ELSE generic

\* C26: the V28 pass returns the survivors of the generic pass, less HCC223
\* when HCC223 is among the categories the pass was given and none of HCC221,
\* HCC222, HCC224, HCC225, HCC226 is among them: the patch is decided from
\* the mapped siblings, before any suppression, and the generic pass removes
\* and records the same categories with and without it.
C26_PatchDecidedOnMapped ==
    (hier.pass = 1 /\ hier.impl = "v28") =>
        LET generic == C26_GenericSurvivors
            given == Names(hier.cats)
            patched == /\ In("HCC223", given)
                       /\ ~\E c \in {"HCC221", "HCC222", "HCC224", "HCC225", "HCC226"} :
                              In(c, given)
        IN  /\ Names(hier.survivors) =
                   IF patched THEN SelectSeq(generic, LAMBDA c : c # "HCC223") ELSE generic
            /\ \A c \in SeqToSet(hier.survivors) :
                   c \in SeqToSet(Commercial_apply_hierarchies(
                                     hierarchy_definitions(hier.table),
                                     hier.cats).final_categories)

\* HCC223 and HCC224 were mapped, the generic pass left HCC223 alone, and
\* HCC223 is returned
C26_Witness ==
    /\ hier.pass = 1 /\ hier.impl = "v28"
    /\ Names(hier.cats) = <<"HCC223", "HCC224">>
    /\ C26_GenericSurvivors = <<"HCC223">>
    /\ Names(hier.survivors) = <<"HCC223">>

\* ---- C27 ----

\* the place of a category of the given type in the claimed order: the
\* demographic categories, the disease categories, the interaction and count
\* categories
C27_Place(type) ==
    CASE type \in {"demographic", "demographic_interaction"} -> 1
      [] type \in {"disease", "rx", "group"} -> 2
      [] OTHER -> 3

\* no category twice, and the places never fall along the list; a name the
\* definitions do not have may stand anywhere after the demographic ones
C27_Ordered(category_list, definitions) ==
    LET place(n) == IF n \in DOMAIN definitions
                    THEN C27_Place(definitions[n].type) ELSE 3
    IN  /\ NoDup(category_list)
        /\ \A i \in 1..Len(category_list) : \A j \in i..Len(category_list) :
               place(category_list[i]) <= place(category_list[j])

\* C27: the category_list of every result, of the Commercial and of the
\* Medicare model, holds no category twice and is ordered: the demographic
\* category first, then the disease categories that survived, then the
\* interaction and count categories.
C27_CategoryListOrdered ==
    /\ com.pc = "returned" =>
          C27_Ordered(com.result.category_list, com_category_definitions)
    /\ med.pc = "returned" =>
          C27_Ordered(med.result.category_list, MedInstance.category_definitions)

\* ---- C28 ----

\* every name of the form HCC_ED<months>
C28_DurationNames == {"HCC_ED" \o ToString(m) : m \in 0..12}

\* the categories _determine_interactions of the call was given: the
\* survivors of the hierarchies
C28_Given == IF com.pc = "returned" THEN com.groups_in ELSE com.categories

\* the enrollment-duration categories _determine_interactions of the call
\* adds
C28_Added ==
    LET interaction_dict == V07_interaction_dict(C28_Given, com.beneficiary)
    IN  {interaction_dict[i].category : i \in 1..Len(interaction_dict)}
            \cap C28_DurationNames

\* the HCCs of the call that are counted: disease and group categories other
\* than HHS_HCC022
C28_Counted ==
    {c \in SeqToSet(C28_Given) : c.type \in {"disease", "group"} /\ c.category # "HHS_HCC022"}

\* C28: a call adds an enrollment-duration category only for an Adult with
\* at least one counted HCC and at most 6 months of enrollment; whatever
\* enrollment_days is, the category added is HCC_ED{m} with m, from 1 to 6,
\* the months of enrollment_days, and a returned category_list holds exactly
\* the category added.
C28_EnrollmentDurationCategory ==
    com.pc \in {"returned", "raised"} /\ com.beneficiary # <<>> =>
        LET b == com.beneficiary
            m == determine_enrollment_months(b.enrollment_days)
        IN  /\ C28_Added # {} =>
                  /\ b.risk_model_age_group = "Adult"
                  /\ C28_Counted # {}
                  /\ m <= 6
            /\ C28_Added \subseteq {"HCC_ED" \o ToString(k) : k \in 1..6}
            /\ (b.risk_model_age_group = "Adult" /\ C28_Counted # {} /\ m \in 1..6)
                  => C28_Added = {"HCC_ED" \o ToString(m)}
            /\ com.pc = "returned" =>
                  SeqToSet(com.result.category_list) \cap C28_DurationNames = C28_Added

\* ---- C29 ----

\* the categories the codes of the call map to, after the edits
C29_Mapped == SeqToSet(com.order)

\* in exactly one of the two lists of the result
C29_InOneList(c) ==
    In(c, com.result.category_list) # In(c, com.result.dropped_category_list)

\* C29 as stated: in a result for an Adult or a Child the two lists share no
\* category and every mapped category is in exactly one of them.
C29_EveryMappedCategoryListed ==
    (com.pc = "returned" /\ com.beneficiary.risk_model_age_group \in {"Adult", "Child"}) =>
        /\ SeqToSet(com.result.category_list)
              \cap SeqToSet(com.result.dropped_category_list) = {}
        /\ \A c \in C29_Mapped : C29_InOneList(c)

\* C29: in a result for an Adult or a Child the two lists share no category;
\* every mapped category is in exactly one of them, except that for a Child
\* a mapped RX category is in neither.
C29_MappedListedButChildRx ==
    (com.pc = "returned" /\ com.beneficiary.risk_model_age_group \in {"Adult", "Child"}) =>
        /\ SeqToSet(com.result.category_list)
              \cap SeqToSet(com.result.dropped_category_list) = {}
        /\ \A c \in C29_Mapped :
              IF com.beneficiary.risk_model_age_group = "Child" /\ ContainsRX(c)
              THEN /\ ~In(c, com.result.category_list)
                   /\ ~In(c, com.result.dropped_category_list)
              ELSE C29_InOneList(c)

\* a Child's result: a mapped RX category in neither list, a category
\* dropped by the hierarchy and one replaced by its group in the dropped list
C29_Witness ==
    /\ com.pc = "returned"
    /\ com.beneficiary.risk_model_age_group = "Child"
    /\ "RXC_07" \in C29_Mapped
    /\ C29_Mapped \cap SeqToSet(com.result.dropped_category_list) = {"HHS_HCC020", "HHS_HCC021"}
    /\ In("G01", com.result.category_list)

\* ---- C30 ----

\* C30: in every result, of the Commercial and of the Medicare model, the
\* raw score is the sum of the raw disease score and the raw demographic
\* score.
C30_TotalIsSumOfSubtotals ==
    /\ com.pc = "returned" =>
          com.result.score_raw =
              com.result.disease_score_raw + com.result.demographic_score_raw
    /\ med.pc = "returned" =>
          med.result.score_raw =
              med.result.disease_score_raw + med.result.demographic_score_raw

====
